---------------------------- MODULE Spec2Model ----------------------------
(***************************************************************************)
(* A model of multilineMAX7219.py: the register protocol of a chain of     *)
(* MAX7219 8x8 LED matrices, the graphics buffer, its renderer and the     *)
(* buffer transformations (sprite, scroll, wipe, rain).                    *)
(*                                                                         *)
(* Python lists are modelled as TLA+ sequences: the Python element l[i]    *)
(* is l[i+1] here.  Python's indexing rules are kept: an index i with      *)
(* -len <= i < 0 addresses element len+i, any other index outside          *)
(* [0, len) raises IndexError.  A raised exception ends the call at once   *)
(* and leaves the writes already made in place.                            *)
(***************************************************************************)
EXTENDS Integers, Sequences, FiniteSets, TLC

VARIABLES
    MATRIX_WIDTH,   \* number of matrices in one row      (src line 113)
    MATRIX_HEIGHT,  \* number of matrices in one column   (src line 114)
    gfx_buffer,     \* gfx_buffer[x][y], a list of columns (src line 131)
    spi,            \* the bursts handed to spi.xfer2 by the last step
    pc,             \* position of the calling script
    op,             \* the last library call: its name and arguments
    eff,            \* the local variables of the running effect
    raised          \* TRUE when the last call ended in a Python exception

vars == <<MATRIX_WIDTH, MATRIX_HEIGHT, gfx_buffer, spi, pc, op, eff, raised>>

----------------------------------------------------------------------------
(* Bounds of the model and constants of the program.                       *)

\* Grids of 1..MaxWidth by 1..MaxHeight matrices are explored, and the grid
\* the source is configured for.
MaxWidth == 2
MaxHeight == 2

\* MATRIX_WIDTH = 3, MATRIX_HEIGHT = 3 as the file ships.
SHIPPED_WIDTH == 3
SHIPPED_HEIGHT == 3

DIR_U == 1
DIR_R == 2
DIR_D == 4
DIR_L == 8
DIR_RU == 3
DIR_RD == 6
DIR_LU == 9
DIR_LD == 12
GFX_OFF == 0
GFX_ON == 1
GFX_INVERT == 2

Grids == ((1..MaxWidth) \X (1..MaxHeight)) \cup {<<SHIPPED_WIDTH, SHIPPED_HEIGHT>>}

NUM_MATRICES == MATRIX_WIDTH * MATRIX_HEIGHT
NO_OP == <<0, 0>>
MATRICES == 0..(NUM_MATRICES - 1)

\* The registers of the MAX7219 (MAX7219_REG_NOOP .. MAX7219_REG_DISPLAYTEST).
REGISTERS == (0..12) \cup {15}

\* Sample data bytes.
Bytes == {0, 1, 85, 128, 255}

----------------------------------------------------------------------------
(* Python list helpers.                                                    *)

\* l * n for a list l.
RECURSIVE Times(_, _)
Times(l, n) == IF n <= 0 THEN <<>> ELSE l \o Times(l, n - 1)

\* Whether l[i] is a valid Python index of a list of length n.
IndexOK(n, i) == (-n <= i) /\ (i < n)

\* The position (1-based) Python's l[i] addresses in a list of length n.
Pos(n, i) == IF i < 0 THEN n + i + 1 ELSE i + 1

\* 2 to the power n.
RECURSIVE Pow2(_)
Pow2(n) == IF n <= 0 THEN 1 ELSE 2 * Pow2(n - 1)

\* An all-zero buffer, as built at import time.
ZeroBuffer(w, h) == [x \in 1..(8 * w) |-> [y \in 1..(8 * h) |-> 0]]

----------------------------------------------------------------------------
(* Register protocol.                                                      *)

\* send_bytes: one burst, CS raised at its end.
send_bytes(datalist) == <<datalist>>

\* A plausible slip: the target pair counted from the wrong end of the chain.
padded_data_swapped(matrix, register, data) ==
    Times(NO_OP, matrix) \o <<register, data>> \o Times(NO_OP, NUM_MATRICES - 1 - matrix)

\* padded_data of send_matrix_reg_byte.
padded_data(matrix, register, data) ==
    Times(NO_OP, NUM_MATRICES - 1 - matrix) \o <<register, data>> \o Times(NO_OP, matrix)

\* A plausible slip: the test "matrix in MATRICES" left out.
send_matrix_reg_byte_unguarded(matrix, register, data) ==
    send_bytes(padded_data(matrix, register, data))

\* The bursts send_matrix_reg_byte sends.
send_matrix_reg_byte_bursts(matrix, register, data) ==
    IF matrix \in MATRICES
    THEN send_bytes(padded_data(matrix, register, data))
    ELSE <<>>

send_matrix_reg_byte(matrix, register, data) ==
    /\ spi' = send_matrix_reg_byte_bursts(matrix, register, data)
    /\ op' = [name |-> "send_matrix_reg_byte", matrix |-> matrix,
              register |-> register, data |-> data]
    /\ pc' = "called"
    /\ raised' = FALSE
    /\ UNCHANGED <<MATRIX_WIDTH, MATRIX_HEIGHT, gfx_buffer, eff>>

----------------------------------------------------------------------------
(* The register protocol on its own.                                       *)

InitCommon ==
    /\ \E g \in Grids : MATRIX_WIDTH = g[1] /\ MATRIX_HEIGHT = g[2]
    /\ spi = <<>>
    /\ pc = "idle"
    /\ op = [name |-> "none"]
    /\ eff = [name |-> "none"]
    /\ raised = FALSE

InitProto ==
    /\ InitCommon
    /\ gfx_buffer = ZeroBuffer(MATRIX_WIDTH, MATRIX_HEIGHT)

NextProto ==
    \E matrix \in (-1)..NUM_MATRICES, register \in REGISTERS, data \in Bytes :
        send_matrix_reg_byte(matrix, register, data)

SpecProto == InitProto /\ [][NextProto]_vars

\* The (register, value) pair at 0-based pair position p of a burst.
PairAt(burst, p) == <<burst[2 * p + 1], burst[2 * p + 2]>>

\* C1: for every grid and every chip index i in [0, chip_count),
\* send_matrix_reg_byte(i, reg, val) sends exactly one burst of length
\* 2*chip_count; its pair at position chip_count-1-i is (reg, val) and every
\* other pair is the no-op pair (0, 0).
C1_WriteOne ==
    (op.name = "send_matrix_reg_byte" /\ op.matrix \in 0..(NUM_MATRICES - 1)) =>
        /\ Len(spi) = 1
        /\ Len(spi[1]) = 2 * NUM_MATRICES
        /\ \A p \in 0..(NUM_MATRICES - 1) :
              PairAt(spi[1], p) =
                  IF p = NUM_MATRICES - 1 - op.matrix
                  THEN <<op.register, op.data>>
                  ELSE <<0, 0>>

\* A write of a non-zero pair to a chip that is not in the middle of the chain.
C1_Witness ==
    /\ op.name = "send_matrix_reg_byte"
    /\ NUM_MATRICES >= 4
    /\ op.matrix = 1
    /\ op.register = 10
    /\ op.data = 255
    /\ Len(spi) = 1

----------------------------------------------------------------------------
(* Buffer contents the checks start from.  Every one of them is a matrix   *)
(* of bits, which gfx_set_px can build pixel by pixel.                     *)

\* Seeded patterns 0..MaxPattern are explored besides the single pixels.
MaxPattern == 3

\* Pixel (x, y), 0-based, of pattern k: 0 is all off, 1 is all on, the
\* others are irregular.
PatternBit(k, x, y) ==
    CASE k = 0 -> 0
      [] k = 1 -> 1
      [] OTHER -> IF ((k + 1) * x + (2 * k + 1) * y + ((x * y) % (k + 2))) % 5 < 2
                  THEN 1 ELSE 0

\* Pattern k as a list of nx columns of ny cells.
PatternArray(k, nx, ny) ==
    [x \in 1..nx |-> [y \in 1..ny |-> PatternBit(k, x - 1, y - 1)]]

\* A buffer with the one pixel (px, py), 0-based, on.
SinglePixel(w, h, px, py) ==
    [x \in 1..(8 * w) |-> [y \in 1..(8 * h) |->
        IF x = px + 1 /\ y = py + 1 THEN 1 ELSE 0]]

Patterns(w, h) == {PatternArray(k, 8 * w, 8 * h) : k \in 0..MaxPattern}

IrregularPatterns(w, h) == {PatternArray(k, 8 * w, 8 * h) : k \in 2..MaxPattern}

SinglePixels(w, h) ==
    {SinglePixel(w, h, px, py) : px \in 0..(8 * w - 1), py \in 0..(8 * h - 1)}

----------------------------------------------------------------------------
(* gfx_render.                                                             *)

\* A plausible slip: local row px weighted 2^px instead of 2^(7-px).
RECURSIVE render_val_lsb_from(_, _, _, _)
render_val_lsb_from(buf, g_col, matrix, px) ==
    IF px > 7 THEN 0
    ELSE buf[g_col + (matrix \div MATRIX_HEIGHT) * 8 + 1]
            [px + (matrix % MATRIX_HEIGHT) * 8 + 1] * Pow2(px)
         + render_val_lsb_from(buf, g_col, matrix, px + 1)

\* val after the loop "for px in range(8)", from px on.
RECURSIVE render_val_from(_, _, _, _)
render_val_from(buf, g_col, matrix, px) ==
    IF px > 7 THEN 0
    ELSE buf[g_col + (matrix \div MATRIX_HEIGHT) * 8 + 1]
            [px + (matrix % MATRIX_HEIGHT) * 8 + 1] * Pow2(7 - px)
         + render_val_from(buf, g_col, matrix, px + 1)

\* column_data built by "for matrix in reversed(range(NUM_MATRICES))", from
\* matrix down to 0.
RECURSIVE render_column_data_from(_, _, _)
render_column_data_from(buf, g_col, matrix) ==
    IF matrix < 0 THEN <<>>
    ELSE <<g_col + 1, render_val_from(buf, g_col, matrix, 0)>>
         \o render_column_data_from(buf, g_col, matrix - 1)

\* A plausible slip: the chips taken first to last.
RECURSIVE render_column_data_forward_from(_, _, _)
render_column_data_forward_from(buf, g_col, matrix) ==
    IF matrix >= NUM_MATRICES THEN <<>>
    ELSE <<g_col + 1, render_val_from(buf, g_col, matrix, 0)>>
         \o render_column_data_forward_from(buf, g_col, matrix + 1)

render_column_data_forward(buf, g_col) ==
    render_column_data_forward_from(buf, g_col, 0)

\* column_data of one pass of the loop "for g_col in range(8)".
render_column_data(buf, g_col) ==
    render_column_data_from(buf, g_col, NUM_MATRICES - 1)

\* The bursts gfx_render sends for buffer buf: one send_bytes per g_col.
gfx_render_bursts(buf) ==
    [g \in 1..8 |-> render_column_data(buf, g - 1)]

\* A plausible slip: the buffer blanked once it has been sent.
gfx_render_flushing ==
    /\ spi' = gfx_render_bursts(gfx_buffer)
    /\ gfx_buffer' = [x \in 1..Len(gfx_buffer) |->
                         [y \in 1..Len(gfx_buffer[x]) |-> 0]]
    /\ op' = [name |-> "gfx_render"]
    /\ pc' = "called"
    /\ raised' = FALSE
    /\ UNCHANGED <<MATRIX_WIDTH, MATRIX_HEIGHT, eff>>

gfx_render ==
    /\ spi' = gfx_render_bursts(gfx_buffer)
    /\ op' = [name |-> "gfx_render"]
    /\ pc' = "called"
    /\ raised' = FALSE
    /\ UNCHANGED <<MATRIX_WIDTH, MATRIX_HEIGHT, gfx_buffer, eff>>

----------------------------------------------------------------------------
(* The renderer on its own.                                                *)

InitRender ==
    /\ InitCommon
    /\ gfx_buffer \in Patterns(MATRIX_WIDTH, MATRIX_HEIGHT)
                      \cup SinglePixels(MATRIX_WIDTH, MATRIX_HEIGHT)

NextRender == gfx_render

SpecRender == InitRender /\ [][NextRender]_vars

\* Bit b of the byte v.
BitOf(v, b) == (v \div Pow2(b)) % 2

\* Pixel (x, y), 0-based, of the buffer.
Px(x, y) == gfx_buffer[x + 1][y + 1]

\* The byte chip i latches from burst number reg when the pair at position
\* p lands on chip NUM_MATRICES-1-p.
Latched(i, reg) == PairAt(spi[reg], NUM_MATRICES - 1 - i)[2]

\* C2: gfx_render sends exactly 8 bursts, for column registers 1..8 in that
\* order; each holds chip_count pairs; the pair at position p carries the
\* byte of chip i = chip_count-1-p, packed from the 8 pixels
\* x = 8*(i div rows) + (register-1), y = 8*(i mod rows) .. 8*(i mod rows)+7
\* and from no other pixel (local row r at bit 7-r, see C3).
C2_Render ==
    (op.name = "gfx_render") =>
        /\ Len(spi) = 8
        /\ \A reg \in 1..8 :
              /\ Len(spi[reg]) = 2 * NUM_MATRICES
              /\ \A p \in 0..(NUM_MATRICES - 1) :
                    LET i == NUM_MATRICES - 1 - p
                        x == 8 * (i \div MATRIX_HEIGHT) + (reg - 1)
                        y0 == 8 * (i % MATRIX_HEIGHT)
                    IN  PairAt(spi[reg], p) =
                          <<reg, Px(x, y0) * 128 + Px(x, y0 + 1) * 64
                                 + Px(x, y0 + 2) * 32 + Px(x, y0 + 3) * 16
                                 + Px(x, y0 + 4) * 8 + Px(x, y0 + 5) * 4
                                 + Px(x, y0 + 6) * 2 + Px(x, y0 + 7)>>

\* A rendered buffer whose one lit pixel lies on a chip that is neither the
\* first nor the last of the chain, on a grid that is not square.
C2_Witness ==
    /\ op.name = "gfx_render"
    /\ MATRIX_WIDTH = 2 /\ MATRIX_HEIGHT = 1
    /\ gfx_buffer = SinglePixel(2, 1, 10, 3)
    /\ Len(spi) = 8

\* C3 as the specification states it: local row r of a chip at bit r of its
\* byte (bit 0 the bottom row), so that pixel (0,0) alone on a 2x1 grid gives
\* chip 0 the byte 1 in the burst of column register 1.
C3_Original ==
    (op.name = "gfx_render") =>
        \A x \in 0..(8 * MATRIX_WIDTH - 1), y \in 0..(8 * MATRIX_HEIGHT - 1) :
            BitOf(Latched((x \div 8) * MATRIX_HEIGHT + (y \div 8), (x % 8) + 1),
                  y % 8) = Px(x, y)

\* C3, amended: local row r of a chip is bit 7-r of its byte, so the most
\* significant bit is the bottom row (y = 0) and bit 0 the top row; on a 2x1
\* grid with only pixel (0,0) on, the burst of column register 1 is
\* (1, 0) for chip 1 first, then (1, 128) for chip 0.
C3_BitOrder ==
    (op.name = "gfx_render") =>
        /\ \A x \in 0..(8 * MATRIX_WIDTH - 1), y \in 0..(8 * MATRIX_HEIGHT - 1) :
              BitOf(Latched((x \div 8) * MATRIX_HEIGHT + (y \div 8), (x % 8) + 1),
                    7 - (y % 8)) = Px(x, y)
        /\ (MATRIX_WIDTH = 2 /\ MATRIX_HEIGHT = 1
              /\ gfx_buffer = SinglePixel(2, 1, 0, 0)) =>
                 spi[1] = <<1, 0, 1, 128>>

\* The end-to-end case of the specification: 2x1, pixel (0,0) on, rendered.
C3_Witness ==
    /\ op.name = "gfx_render"
    /\ MATRIX_WIDTH = 2 /\ MATRIX_HEIGHT = 1
    /\ gfx_buffer = SinglePixel(2, 1, 0, 0)
    /\ spi[1][4] # 0

----------------------------------------------------------------------------
(* gfx_sprite_array.                                                       *)

\* Python's ~b.
Invert(b) == -(b + 1)

\* A plausible slip: "|" in place of "^".
Or(b, v) == IF b = 0 THEN v ELSE IF v % 2 = 0 THEN v + 1 ELSE v

\* Python's b ^ v for a bit b.
Xor(b, v) == IF b = 0 THEN v ELSE IF v % 2 = 0 THEN v + 1 ELSE v - 1

\* Sprites of 1..MaxSprite columns by 1..MaxSprite rows are explored.
MaxSprite == 2

\* One pass of the inner loop body for sprite cell (l_col, l_row); st is
\* [buf, raised].  The test reads len(gfx_buffer[l_col + start_x]) and the
\* assignment indexes gfx_buffer[l_col + start_x][l_row + start_y]: neither
\* checks for a negative index.
sprite_cell(st, sprite, start_x, start_y, state, l_col, l_row) ==
    LET x == l_col + start_x
        y == l_row + start_y
        nx == Len(st.buf)
        b == sprite[l_col + 1][l_row + 1]
    IN  IF st.raised \/ ~(x < nx) THEN st
        ELSE IF ~IndexOK(nx, x) THEN [st EXCEPT !.raised = TRUE]
        ELSE LET ny == Len(st.buf[Pos(nx, x)])
                 v == st.buf[Pos(nx, x)][Pos(ny, y)]
             IN  IF ~(y < ny) \/ state \notin {GFX_ON, GFX_OFF, GFX_INVERT} THEN st
                 ELSE IF ~IndexOK(ny, y) THEN [st EXCEPT !.raised = TRUE]
                 ELSE [st EXCEPT !.buf[Pos(nx, x)][Pos(ny, y)] =
                          CASE state = GFX_ON -> b
                            [] state = GFX_OFF -> Invert(b)
                            [] state = GFX_INVERT -> Xor(b, v)]

\* "for l_row in range(len(sprite[l_col]))", from l_row on.
RECURSIVE sprite_rows_from(_, _, _, _, _, _, _)
sprite_rows_from(st, sprite, start_x, start_y, state, l_col, l_row) ==
    IF l_row >= Len(sprite[l_col + 1]) THEN st
    ELSE sprite_rows_from(
             sprite_cell(st, sprite, start_x, start_y, state, l_col, l_row),
             sprite, start_x, start_y, state, l_col, l_row + 1)

\* "for l_col in range(len(sprite))", from l_col on.
RECURSIVE sprite_cols_from(_, _, _, _, _, _)
sprite_cols_from(st, sprite, start_x, start_y, state, l_col) ==
    IF l_col >= Len(sprite) THEN st
    ELSE sprite_cols_from(
             sprite_rows_from(st, sprite, start_x, start_y, state, l_col, 0),
             sprite, start_x, start_y, state, l_col + 1)

gfx_sprite_array(sprite, start_x, start_y, state) ==
    LET st == sprite_cols_from([buf |-> gfx_buffer, raised |-> FALSE],
                               sprite, start_x, start_y, state, 0)
    IN  /\ pc = "idle"
        /\ gfx_buffer' = st.buf
        /\ raised' = st.raised
        /\ spi' = <<>>
        /\ op' = [name |-> "gfx_sprite_array", sprite |-> sprite,
                  start_x |-> start_x, start_y |-> start_y, state |-> state,
                  pre |-> gfx_buffer]
        /\ pc' = "called"
        /\ UNCHANGED <<MATRIX_WIDTH, MATRIX_HEIGHT, eff>>

\* The same call once more: gfx_sprite_array with the sprite, offset and
\* state of the call that has just returned.
gfx_sprite_array_again ==
    LET st == sprite_cols_from([buf |-> gfx_buffer, raised |-> FALSE],
                               op.sprite, op.start_x, op.start_y, op.state, 0)
    IN  /\ pc = "called"
        /\ op.name = "gfx_sprite_array"
        /\ ~raised
        /\ gfx_buffer' = st.buf
        /\ raised' = st.raised
        /\ spi' = <<>>
        /\ op' = [name |-> "gfx_sprite_array twice", sprite |-> op.sprite,
                  start_x |-> op.start_x, start_y |-> op.start_y,
                  state |-> op.state, pre |-> op.pre, between |-> gfx_buffer]
        /\ UNCHANGED <<MATRIX_WIDTH, MATRIX_HEIGHT, pc, eff>>

----------------------------------------------------------------------------
(* One sprite drawn into a buffer.                                         *)

\* All-on sprites and irregular ones.
Sprites ==
    {PatternArray(k, nx, ny) : k \in {1, 2}, nx \in 1..MaxSprite, ny \in 1..MaxSprite}

\* Offsets left of, on and right of the range [0, n): the far ones put the
\* whole sprite outside.
Offsets(n) == {-(n + 1), -1, 0, n - 1, n}

InitSprite ==
    /\ InitCommon
    /\ gfx_buffer \in Patterns(MATRIX_WIDTH, MATRIX_HEIGHT)

NextSprite ==
    \E sprite \in Sprites,
       start_x \in Offsets(8 * MATRIX_WIDTH), start_y \in Offsets(8 * MATRIX_HEIGHT),
       state \in {GFX_ON, GFX_OFF, GFX_INVERT} :
        gfx_sprite_array(sprite, start_x, start_y, state)

SpecSprite == InitSprite /\ [][NextSprite]_vars

\* The buffer's pixel coordinates, 0-based.
Columns == 0..(8 * MATRIX_WIDTH - 1)
Rows == 0..(8 * MATRIX_HEIGHT - 1)

\* Pixel (x, y), 0-based, of a list of columns.
At(a, x, y) == a[x + 1][y + 1]

\* C4: gfx_sprite_array with any integer offset, negative ones included,
\* changes only buffer pixels (x0+i, y0+j) for a sprite cell (i, j); no
\* other pixel changes and no error is raised.
C4_Clipped ==
    (op.name = "gfx_sprite_array") =>
        /\ ~raised
        /\ \A x \in Columns, y \in Rows :
              (Px(x, y) # At(op.pre, x, y)) =>
                  \E i \in 0..(Len(op.sprite) - 1) :
                      \E j \in 0..(Len(op.sprite[i + 1]) - 1) :
                          x = op.start_x + i /\ y = op.start_y + j

\* C5: a pixel covered by sprite bit b that held v holds v OR b after a blit
\* with state ON, v AND NOT b with state OFF and v XOR b with state INVERT.
C5_Blend ==
    (op.name = "gfx_sprite_array" /\ op.start_x >= 0 /\ op.start_y >= 0) =>
        \A i \in 0..(Len(op.sprite) - 1) :
            \A j \in 0..(Len(op.sprite[i + 1]) - 1) :
                LET x == op.start_x + i
                    y == op.start_y + j
                    b == op.sprite[i + 1][j + 1]
                    v == At(op.pre, x, y)
                IN  (x \in Columns /\ y \in Rows) =>
                        Px(x, y) =
                            CASE op.state = GFX_ON -> IF v = 1 \/ b = 1 THEN 1 ELSE 0
                              [] op.state = GFX_OFF -> IF v = 1 /\ b = 0 THEN 1 ELSE 0
                              [] op.state = GFX_INVERT -> IF v # b THEN 1 ELSE 0

----------------------------------------------------------------------------
(* One sprite drawn into a buffer twice.                                   *)

NextSpriteTwice ==
    \/ \E sprite \in Sprites,
          start_x \in Offsets(8 * MATRIX_WIDTH), start_y \in Offsets(8 * MATRIX_HEIGHT),
          state \in {GFX_ON, GFX_INVERT} :
            gfx_sprite_array(sprite, start_x, start_y, state)
    \/ gfx_sprite_array_again

SpecSpriteTwice == InitSprite /\ [][NextSpriteTwice]_vars

\* C20: gfx_sprite_array called twice with the same sprite, the same offset
\* and state INVERT leaves every pixel of the buffer as it was before the
\* first call, for any sprite of bits and any offset at which neither call
\* raises.
C20_InvertTwice ==
    (op.name = "gfx_sprite_array twice" /\ op.state = GFX_INVERT /\ ~raised) =>
        \A x \in Columns, y \in Rows : Px(x, y) = At(op.pre, x, y)

\* Two inverting calls at a negative offset, the first of which changed the
\* buffer.
C20_Witness ==
    /\ op.name = "gfx_sprite_array twice"
    /\ op.state = GFX_INVERT
    /\ ~raised
    /\ op.start_x = -1 /\ op.start_y = 0
    /\ op.between # op.pre
    /\ gfx_buffer = op.pre

----------------------------------------------------------------------------
(* gfx_scroll.                                                             *)
(* A new_graphic argument is [kind |-> "int", val |-> n] for a number such *)
(* as GFX_OFF or GFX_ON, or [kind |-> "list", val |-> l] for a list of     *)
(* lists, or [kind |-> "mixed", val |-> l] for a list whose entries are    *)
(* themselves tagged, [kind |-> "list", ...] or [kind |-> "int", ...], so  *)
(* that it can hold entries that are no lists.                             *)

Max(a, b) == IF a > b THEN a ELSE b
Min(a, b) == IF a < b THEN a ELSE b
Abs(a) == IF a < 0 THEN -a ELSE a

\* direction & flag, for a flag that is a power of two.
HasFlag(direction, flag) == (direction \div flag) % 2 = 1

\* l[:n] for n >= 0.
Take(l, n) == SubSeq(l, 1, Min(n, Len(l)))

\* [v] * n
Fill(v, n) == [i \in 1..n |-> v]

\* The entries of a list argument, one that is no list replaced by [].
graphic_items(new_graphic) ==
    IF new_graphic.kind = "list" THEN new_graphic.val
    ELSE IF new_graphic.kind = "mixed"
    THEN [i \in 1..Len(new_graphic.val) |->
            IF new_graphic.val[i].kind = "list" THEN new_graphic.val[i].val ELSE <<>>]
    ELSE <<>>

\* A plausible slip: short columns and missing columns filled with lit
\* pixels.
normalize_graphic_lit(new_graphic, nx, ny) ==
    IF new_graphic.kind = "int" /\ new_graphic.val = GFX_OFF THEN Fill(Fill(0, ny), nx)
    ELSE IF new_graphic.kind = "int" /\ new_graphic.val = GFX_ON THEN Fill(Fill(1, ny), nx)
    ELSE LET l == graphic_items(new_graphic)
             padded == [i \in 1..Len(l) |-> Take(l[i] \o Fill(1, ny), ny)]
         IN  Take(padded \o Fill(Fill(1, ny), nx), nx)

\* new_graphic after the "errorhandling" block: nx columns of ny cells.
normalize_graphic(new_graphic, nx, ny) ==
    IF new_graphic.kind = "int" /\ new_graphic.val = GFX_OFF THEN Fill(Fill(0, ny), nx)
    ELSE IF new_graphic.kind = "int" /\ new_graphic.val = GFX_ON THEN Fill(Fill(1, ny), nx)
    ELSE LET l == graphic_items(new_graphic)
             padded == [i \in 1..Len(l) |-> Take(l[i] \o Fill(0, ny), ny)]
         IN  Take(padded \o Fill(Fill(0, ny), nx), nx)

\* The clamped rectangle: start_x, extent_x (or start_y, extent_y) for a
\* buffer of n pixels along the axis.
clamp_start(n, start) == Max(0, Min(n - 1, start))
\* A plausible slip: the rectangle's far edge taken as inclusive.
clamp_extent_inclusive(n, start, extent) ==
    Max(0, Min(n - clamp_start(n, start), extent + 1))

clamp_extent(n, start, extent) == Max(0, Min(n - clamp_start(n, start), extent))

\* distance after the two clamping tests, which compare with the extents as
\* passed and only for the four cardinal directions.
clamp_distance(direction, extent_x, extent_y, distance) ==
    LET d0 == Abs(distance)
        d1 == IF (direction = DIR_L \/ direction = DIR_R) /\ d0 > extent_x
              THEN extent_x ELSE d0
    IN  IF (direction = DIR_U \/ direction = DIR_D) /\ d1 > extent_y
        THEN extent_y ELSE d1

\* A plausible slip: the fill of a right shift indexed from its first column.
scroll_fill_index_from_start(dir, a, g_x, g_y) ==
    CASE dir = DIR_L -> <<g_x - a.sx - a.ex + a.d, g_y - a.sy>>
      [] dir = DIR_R -> <<g_x - a.sx, g_y - a.sy>>
      [] dir = DIR_U -> <<g_x - a.sx, g_y - a.sy + a.ey - a.d>>
      [] dir = DIR_D -> <<g_x - a.sx, g_y - a.sy - a.ey + a.d>>

\* The indices into new_graphic a vacated cell (g_x, g_y) is filled from.
scroll_fill_index(dir, a, g_x, g_y) ==
    CASE dir = DIR_L -> <<g_x - a.sx - a.ex + a.d, g_y - a.sy>>
      [] dir = DIR_R -> <<g_x - a.sx + a.ex - a.d, g_y - a.sy>>
      [] dir = DIR_U -> <<g_x - a.sx, g_y - a.sy + a.ey - a.d>>
      [] dir = DIR_D -> <<g_x - a.sx, g_y - a.sy - a.ey + a.d>>

\* Whether cell (g_x, g_y) is filled from new_graphic, not from the buffer.
scroll_vacated(dir, a, g_x, g_y) ==
    CASE dir = DIR_L -> ~(g_x + a.d < a.sx + a.ex)
      [] dir = DIR_R -> g_x - a.d < a.sx
      [] dir = DIR_U -> g_y - a.d < a.sy
      [] dir = DIR_D -> ~(g_y + a.d < a.sy + a.ey)

\* The buffer cell that moves into (g_x, g_y).
scroll_source(dir, a, g_x, g_y) ==
    CASE dir = DIR_L -> <<g_x + a.d, g_y>>
      [] dir = DIR_R -> <<g_x - a.d, g_y>>
      [] dir = DIR_U -> <<g_x, g_y - a.d>>
      [] dir = DIR_D -> <<g_x, g_y + a.d>>

\* Whether m[i][j] is a valid Python access of a list of lists m.
Index2OK(m, i, j) == IndexOK(Len(m), i) /\ IndexOK(Len(m[Pos(Len(m), i)]), j)

\* Python's m[i][j].
Get2(m, i, j) == m[Pos(Len(m), i)][Pos(Len(m[Pos(Len(m), i)]), j)]

\* The assignment to gfx_buffer[g_x][g_y] in the loop of direction dir; st is
\* [buf, raised], a holds the clamped arguments.  (g_x, g_y) lies in the
\* clamped rectangle and a cell that is not vacated has its source there
\* too, so only the index into new_graphic can be out of range.
scroll_cell(dir, st, a, g_x, g_y) ==
    IF scroll_vacated(dir, a, g_x, g_y)
    THEN LET ix == scroll_fill_index(dir, a, g_x, g_y)
         IN  IF Index2OK(a.ng, ix[1], ix[2])
             THEN [st EXCEPT !.buf[g_x + 1][g_y + 1] = Get2(a.ng, ix[1], ix[2])]
             ELSE [st EXCEPT !.raised = TRUE]
    ELSE LET ix == scroll_source(dir, a, g_x, g_y)
         IN  [st EXCEPT !.buf[g_x + 1][g_y + 1] = st.buf[ix[1] + 1][ix[2] + 1]]

\* The inner loop "for g_y in ...": n passes from g_y on, g_y moving by step;
\* an exception ends it.
RECURSIVE scroll_rows_from(_, _, _, _, _, _, _)
scroll_rows_from(dir, st, a, g_x, g_y, step, n) ==
    IF n <= 0 THEN st
    ELSE LET nxt == scroll_cell(dir, st, a, g_x, g_y)
         IN  IF nxt.raised THEN nxt
             ELSE scroll_rows_from(dir, nxt, a, g_x, g_y + step, step, n - 1)

\* A plausible slip: every loop visits the rows in ascending order, so an
\* upward shift reads cells it has already written.
scroll_rows_ascending(dir, st, a, g_x) ==
    scroll_rows_from(dir, st, a, g_x, a.sy, 1, a.ey)

\* The rows in the order the loop of direction dir visits them:
\* reversed(range(start_y, start_y + extent_y)) for DIR_U, the range itself
\* for the others.
scroll_rows(dir, st, a, g_x) ==
    IF dir = DIR_U
    THEN scroll_rows_from(dir, st, a, g_x, a.sy + a.ey - 1, -1, a.ey)
    ELSE scroll_rows_from(dir, st, a, g_x, a.sy, 1, a.ey)

\* The outer loop "for g_x in ...": n passes from g_x on, g_x moving by step.
RECURSIVE scroll_cols_from(_, _, _, _, _, _)
scroll_cols_from(dir, st, a, g_x, step, n) ==
    IF n <= 0 THEN st
    ELSE LET nxt == scroll_rows(dir, st, a, g_x)
         IN  IF nxt.raised THEN nxt
             ELSE scroll_cols_from(dir, nxt, a, g_x + step, step, n - 1)

\* One of the four loops: reversed(range(start_x, start_x + extent_x)) for
\* DIR_R, the range itself for the others.
scroll_pass(dir, st, a) ==
    IF dir = DIR_R
    THEN scroll_cols_from(dir, st, a, a.sx + a.ex - 1, -1, a.ex)
    ELSE scroll_cols_from(dir, st, a, a.sx, 1, a.ex)

\* gfx_scroll on buffer buf: [buf, raised] at its end.
gfx_scroll_result(buf, direction, new_graphic, start_x, extent_x, start_y, extent_y, distance) ==
    LET nx == Len(buf)
        ny == Len(buf[1])
        sx == clamp_start(nx, start_x)
        ex == clamp_extent(nx, start_x, extent_x)
        sy == clamp_start(ny, start_y)
        ey == clamp_extent(ny, start_y, extent_y)
        a == [sx |-> sx, ex |-> ex, sy |-> sy, ey |-> ey,
              d |-> clamp_distance(direction, extent_x, extent_y, distance),
              ng |-> normalize_graphic(new_graphic, ex, ey)]
        st0 == [buf |-> buf, raised |-> FALSE]
        st1 == IF HasFlag(direction, DIR_L) THEN scroll_pass(DIR_L, st0, a)
               ELSE IF HasFlag(direction, DIR_R) THEN scroll_pass(DIR_R, st0, a)
               ELSE st0
    IN  IF HasFlag(direction, DIR_U) THEN scroll_pass(DIR_U, st1, a)
        ELSE IF HasFlag(direction, DIR_D) THEN scroll_pass(DIR_D, st1, a)
        ELSE st1

gfx_scroll(direction, new_graphic, start_x, extent_x, start_y, extent_y, distance) ==
    LET st == gfx_scroll_result(gfx_buffer, direction, new_graphic,
                                start_x, extent_x, start_y, extent_y, distance)
    IN  /\ gfx_buffer' = st.buf
        /\ raised' = st.raised
        /\ spi' = <<>>
        /\ op' = [name |-> "gfx_scroll", direction |-> direction,
                  new_graphic |-> new_graphic,
                  start_x |-> start_x, extent_x |-> extent_x,
                  start_y |-> start_y, extent_y |-> extent_y,
                  distance |-> distance, pre |-> gfx_buffer, prev |-> op]
        /\ UNCHANGED <<MATRIX_WIDTH, MATRIX_HEIGHT, eff>>

----------------------------------------------------------------------------
(* A script that scrolls a rectangle once, and scrolls it back after a     *)
(* left shift by one.                                                      *)

Directions == {DIR_U, DIR_R, DIR_D, DIR_L, DIR_RU, DIR_RD, DIR_LU, DIR_LD}

\* Rectangles <<start_x, extent_x, start_y, extent_y>> of a buffer of nx by
\* ny pixels: the whole buffer, two inside it, one that extends past its
\* right and top edges and one that starts left of and below it.
Rectangles(nx, ny) ==
    {<<0, nx, 0, ny>>, <<2, 4, 1, 5>>, <<nx - 1, 1, 0, ny>>,
     <<5, nx, 3, ny>>, <<-2, 6, -1, 4>>}

Distances == {0, 1, 3, 9}

\* GFX_OFF, GFX_ON, a full-size array and one that is too small.
Fills(nx, ny) ==
    {[kind |-> "int", val |-> GFX_OFF], [kind |-> "int", val |-> GFX_ON],
     [kind |-> "list", val |-> PatternArray(2, nx, ny)],
     [kind |-> "list", val |-> PatternArray(3, 2, 3)]}

InitScroll ==
    /\ InitCommon
    /\ gfx_buffer \in IrregularPatterns(MATRIX_WIDTH, MATRIX_HEIGHT)

scroll_once ==
    /\ pc = "idle"
    /\ \E direction \in Directions,
          new_graphic \in Fills(8 * MATRIX_WIDTH, 8 * MATRIX_HEIGHT),
          r \in Rectangles(8 * MATRIX_WIDTH, 8 * MATRIX_HEIGHT),
          distance \in Distances :
            gfx_scroll(direction, new_graphic, r[1], r[2], r[3], r[4], distance)
    /\ pc' = "called"

\* The column a left shift by one pushed out of the rectangle of the last
\* call, as the last column of an otherwise blank fill of the rectangle's size.
PushedOut ==
    LET sx == clamp_start(8 * MATRIX_WIDTH, op.start_x)
        ex == clamp_extent(8 * MATRIX_WIDTH, op.start_x, op.extent_x)
        sy == clamp_start(8 * MATRIX_HEIGHT, op.start_y)
        ey == clamp_extent(8 * MATRIX_HEIGHT, op.start_y, op.extent_y)
    IN  [i \in 1..ex |-> [j \in 1..ey |->
            IF i = ex THEN op.pre[sx + 1][sy + j] ELSE 0]]

scroll_back ==
    /\ pc = "called"
    /\ op.name = "gfx_scroll" /\ op.direction = DIR_L /\ op.distance = 1
    /\ ~raised
    /\ gfx_scroll(DIR_R, [kind |-> "list", val |-> PushedOut],
                  op.start_x, op.extent_x, op.start_y, op.extent_y, 1)
    /\ pc' = "back"

NextScroll == scroll_once \/ scroll_back

SpecScroll == InitScroll /\ [][NextScroll]_vars

\* C6: gfx_scroll with any direction and any integer rectangle and distance
\* never raises an error: every index it uses is inside the buffer or the
\* fill array.
C6_NoError ==
    (op.name = "gfx_scroll") => ~raised

\* Whether the rectangle of the last call lies fully inside the buffer.
RectInside ==
    /\ op.start_x >= 0 /\ op.extent_x >= 1
    /\ op.start_x + op.extent_x <= 8 * MATRIX_WIDTH
    /\ op.start_y >= 0 /\ op.extent_y >= 1
    /\ op.start_y + op.extent_y <= 8 * MATRIX_HEIGHT

\* C7: for a rectangle fully inside the buffer, a shift left by 1 followed by
\* a shift right by 1 of the same rectangle, filled with the column the left
\* shift pushed out, restores every pixel of the rectangle.
C7_RoundTrip ==
    (pc = "back" /\ RectInside) =>
        /\ ~raised
        /\ \A x \in op.start_x..(op.start_x + op.extent_x - 1),
              y \in op.start_y..(op.start_y + op.extent_y - 1) :
                 Px(x, y) = At(op.prev.pre, x, y)

\* A round trip over an inner rectangle whose left shift changed the buffer.
C7_Witness ==
    /\ pc = "back"
    /\ <<op.start_x, op.extent_x, op.start_y, op.extent_y>> = <<2, 4, 1, 5>>
    /\ op.pre # op.prev.pre
    /\ gfx_buffer = op.prev.pre

----------------------------------------------------------------------------
(* One rectangle shifted once, by distances up to and past its extent and  *)
(* with a fill of the rectangle's size.                                    *)

ShiftDistances == {0, 1, 4, 5, 9}

\* GFX_ON and an array of extent_x columns by extent_y cells.
ShiftFills(extent_x, extent_y) ==
    {[kind |-> "int", val |-> GFX_ON],
     [kind |-> "list", val |-> PatternArray(3, extent_x, extent_y)]}

InitShift ==
    /\ InitCommon
    /\ gfx_buffer = PatternArray(2, 8 * MATRIX_WIDTH, 8 * MATRIX_HEIGHT)

shift_once ==
    /\ pc = "idle"
    /\ \E direction \in Directions,
          r \in Rectangles(8 * MATRIX_WIDTH, 8 * MATRIX_HEIGHT),
          distance \in ShiftDistances :
            \E new_graphic \in ShiftFills(r[2], r[4]) :
                gfx_scroll(direction, new_graphic, r[1], r[2], r[3], r[4], distance)
    /\ pc' = "called"

NextShift == shift_once

SpecShift == InitShift /\ [][NextShift]_vars

\* The rectangle of the last call after clamping to the buffer, as the
\* documentation states it: <<x0, w, y0, h>>.
ClampedRect ==
    LET x0 == Max(0, Min(8 * MATRIX_WIDTH - 1, op.start_x))
        y0 == Max(0, Min(8 * MATRIX_HEIGHT - 1, op.start_y))
    IN  <<x0, Max(0, Min(8 * MATRIX_WIDTH - x0, op.extent_x)),
          y0, Max(0, Min(8 * MATRIX_HEIGHT - y0, op.extent_y))>>

\* Whether pixel (x, y) lies in the clamped rectangle.
InRect(x, y) ==
    /\ x >= ClampedRect[1] /\ x < ClampedRect[1] + ClampedRect[2]
    /\ y >= ClampedRect[3] /\ y < ClampedRect[3] + ClampedRect[4]

\* Whether the pixel that a shift of the last call's direction and distance
\* would move into (x, y) lies outside the clamped rectangle.
FromOutside(x, y) ==
    LET d == Abs(op.distance)
    IN  \/ HasFlag(op.direction, DIR_L) /\ x + d >= ClampedRect[1] + ClampedRect[2]
        \/ ~HasFlag(op.direction, DIR_L) /\ HasFlag(op.direction, DIR_R)
              /\ x - d < ClampedRect[1]
        \/ HasFlag(op.direction, DIR_U) /\ y - d < ClampedRect[3]
        \/ ~HasFlag(op.direction, DIR_U) /\ HasFlag(op.direction, DIR_D)
              /\ y + d >= ClampedRect[3] + ClampedRect[4]

\* C21: gfx_scroll changes no pixel outside the clamped rectangle
\* [start_x, start_x+extent_x) x [start_y, start_y+extent_y), for every
\* direction, distance and fill; the pixels shifted past the rectangle's
\* edge are discarded: they do not come back in at the other edge, where a
\* call that returns with fill GFX_ON leaves lit pixels only.
C21_Frame ==
    (op.name = "gfx_scroll") =>
        /\ \A x \in Columns, y \in Rows :
              ~InRect(x, y) => Px(x, y) = At(op.pre, x, y)
        /\ (~raised /\ op.new_graphic.kind = "int") =>
              \A x \in Columns, y \in Rows :
                  (InRect(x, y) /\ FromOutside(x, y)) => Px(x, y) = 1

\* A diagonal shift by one of an inner rectangle with fill GFX_ON, which
\* changed the buffer and lit a cell that was off.
C21_Witness ==
    /\ op.name = "gfx_scroll"
    /\ ~raised
    /\ op.direction = DIR_LU /\ op.distance = 1
    /\ <<op.start_x, op.extent_x, op.start_y, op.extent_y>> = <<2, 4, 1, 5>>
    /\ op.new_graphic.kind = "int"
    /\ \E y \in 1..5 : At(op.pre, 5, y) = 0 /\ Px(5, y) = 1

\* Cell (i, j), 0-based, of the fill array of the last call.
F(i, j) == op.new_graphic.val[i + 1][j + 1]

\* Whether the last call had a rectangle inside the buffer, a fill array of
\* the rectangle's size, one of the four cardinal directions, and a
\* distance from 1 to the rectangle's extent along that direction.
ShiftInExtent ==
    /\ op.name = "gfx_scroll"
    /\ RectInside
    /\ op.new_graphic.kind = "list"
    /\ Len(op.new_graphic.val) = op.extent_x
    /\ \A i \in 1..op.extent_x : Len(op.new_graphic.val[i]) = op.extent_y
    /\ op.direction \in {DIR_L, DIR_R, DIR_U, DIR_D}
    /\ op.distance >= 1
    /\ op.distance <= (IF op.direction \in {DIR_L, DIR_R}
                       THEN op.extent_x ELSE op.extent_y)

\* C24: gfx_scroll by distance d (1 <= d <= extent) over the rectangle
\* (x0, y0, w, h) with a fill F of w by h cells gives, for DIR_L,
\* new(x,y) = old(x+d,y) if x+d < x0+w else F[x-x0-w+d][y-y0]; for DIR_R,
\* old(x-d,y) if x-d >= x0 else F[x-x0+w-d][y-y0]; for DIR_U, old(x,y-d) if
\* y-d >= y0 else F[x-x0][y-y0+h-d]; for DIR_D, old(x,y+d) if y+d < y0+h
\* else F[x-x0][y-y0-h+d]; a shift by the full extent leaves F itself.
C24_ShiftBy ==
    ShiftInExtent =>
        LET x0 == op.start_x
            y0 == op.start_y
            w == op.extent_x
            h == op.extent_y
            d == op.distance
        IN  /\ ~raised
            /\ \A x \in x0..(x0 + w - 1), y \in y0..(y0 + h - 1) :
                  Px(x, y) =
                    CASE op.direction = DIR_L ->
                           IF x + d < x0 + w THEN At(op.pre, x + d, y)
                           ELSE F(x - x0 - w + d, y - y0)
                      [] op.direction = DIR_R ->
                           IF x - d >= x0 THEN At(op.pre, x - d, y)
                           ELSE F(x - x0 + w - d, y - y0)
                      [] op.direction = DIR_U ->
                           IF y - d >= y0 THEN At(op.pre, x, y - d)
                           ELSE F(x - x0, y - y0 + h - d)
                      [] op.direction = DIR_D ->
                           IF y + d < y0 + h THEN At(op.pre, x, y + d)
                           ELSE F(x - x0, y - y0 - h + d)

\* An upward shift of an inner rectangle by its full height, which left the
\* fill array in the rectangle and changed the buffer.
C24_Witness ==
    /\ ShiftInExtent
    /\ ~raised
    /\ op.direction = DIR_U /\ op.distance = 5
    /\ <<op.start_x, op.extent_x, op.start_y, op.extent_y>> = <<2, 4, 1, 5>>
    /\ gfx_buffer # op.pre
    /\ \A i \in 0..3, j \in 0..4 : Px(2 + i, 1 + j) = F(i, j)

----------------------------------------------------------------------------
(* gfx_effect_wipe.  Each pass of its loop (reveal, gfx_render, sleep) is  *)
(* one step.                                                               *)

\* new_graphic after the "errorhandling" block of gfx_effect_wipe.
wipe_new_graphic(new_graphic) ==
    normalize_graphic(new_graphic, 8 * MATRIX_WIDTH, 8 * MATRIX_HEIGHT)

\* A plausible slip: the diagonal sweep stopped after max(width, height)
\* passes.
wipe_passes_short(transition) ==
    IF transition \in {DIR_L, DIR_R} THEN 8 * MATRIX_WIDTH
    ELSE IF transition \in {DIR_D, DIR_U} THEN 8 * MATRIX_HEIGHT
    ELSE IF transition \in {DIR_RU, DIR_LD, DIR_RD, DIR_LU}
         THEN Max(8 * MATRIX_HEIGHT, 8 * MATRIX_WIDTH)
    ELSE 0

\* The number of passes of the loop of a transition; none for a transition
\* the function does not know.
wipe_passes(transition) ==
    IF transition \in {DIR_L, DIR_R} THEN 8 * MATRIX_WIDTH
    ELSE IF transition \in {DIR_D, DIR_U} THEN 8 * MATRIX_HEIGHT
    ELSE IF transition \in {DIR_RU, DIR_LD, DIR_RD, DIR_LU}
         THEN 8 * MATRIX_HEIGHT + 8 * MATRIX_WIDTH - 1
    ELSE 0

\* A plausible slip: every sweep run in ascending order.
wipe_loop_value_ascending(transition, k) == k

\* The loop variable (g_col, g_row or iter) in pass k, counted from 0: the
\* range is reversed for DIR_L, DIR_D, DIR_LD and DIR_LU.
wipe_loop_value(transition, k) ==
    IF transition \in {DIR_L, DIR_D, DIR_LD, DIR_LU}
    THEN wipe_passes(transition) - 1 - k
    ELSE k

\* The cells <<x, y>> one pass assigns from new_graphic, v being the loop
\* variable.
wipe_cells(transition, v) ==
    LET nx == 8 * MATRIX_WIDTH
        ny == 8 * MATRIX_HEIGHT
        maximum == Max(ny, nx)
        stages == 0..(Min(v + 1, maximum) - 1)
    IN  IF transition \in {DIR_L, DIR_R} THEN {<<v, g_row>> : g_row \in 0..(ny - 1)}
        ELSE IF transition \in {DIR_D, DIR_U} THEN {<<g_col, v>> : g_col \in 0..(nx - 1)}
        ELSE IF transition \in {DIR_RU, DIR_LD}
             THEN {<<v - stage, stage>> :
                      stage \in {t \in stages : v - t < nx /\ t < ny}}
        ELSE IF transition \in {DIR_RD, DIR_LU}
             THEN {<<stage, ny - 1 - v + stage>> :
                      stage \in {t \in stages : ny - 1 - v + t >= 0 /\ t < nx}}
        ELSE {}

\* The buffer after the assignments of one pass; a negative index counts
\* from the end, as Python's does.
wipe_assign(buf, ng, cells) ==
    LET at == {<<Pos(Len(buf), c[1]), Pos(Len(buf[1]), c[2])>> : c \in cells}
    IN  [x \in 1..Len(buf) |-> [y \in 1..Len(buf[1]) |->
            IF <<x, y>> \in at THEN ng[x][y] ELSE buf[x][y]]]

wipe_start(new_graphic, transition) ==
    /\ pc = "idle"
    /\ pc' = "wipe"
    /\ eff' = [name |-> "gfx_effect_wipe",
               new_graphic |-> wipe_new_graphic(new_graphic),
               transition |-> transition,
               k |-> 0, renders |-> 0, written |-> {},
               writes |-> ZeroBuffer(MATRIX_WIDTH, MATRIX_HEIGHT),
               pre |-> gfx_buffer]
    /\ op' = [name |-> "gfx_effect_wipe", new_graphic |-> new_graphic]
    /\ UNCHANGED <<MATRIX_WIDTH, MATRIX_HEIGHT, gfx_buffer, spi, raised>>

wipe_step ==
    /\ pc = "wipe"
    /\ eff.k < wipe_passes(eff.transition)
    /\ LET cells == wipe_cells(eff.transition, wipe_loop_value(eff.transition, eff.k))
           bad == \E c \in cells : ~Index2OK(gfx_buffer, c[1], c[2])
       IN  IF bad
           THEN /\ raised' = TRUE
                /\ pc' = "called"
                /\ UNCHANGED <<gfx_buffer, spi, eff>>
           ELSE /\ gfx_buffer' = wipe_assign(gfx_buffer, eff.new_graphic, cells)
                /\ spi' = gfx_render_bursts(gfx_buffer')
                /\ eff' = [eff EXCEPT !.k = @ + 1, !.renders = @ + 1,
                                      !.written = cells,
                                      !.writes = [x \in 1..Len(@) |-> [y \in 1..Len(@[1]) |->
                                          IF <<x - 1, y - 1>> \in cells
                                          THEN @[x][y] + 1 ELSE @[x][y]]]]
                /\ UNCHANGED <<pc, raised>>
    /\ UNCHANGED <<MATRIX_WIDTH, MATRIX_HEIGHT, op>>

wipe_return ==
    /\ pc = "wipe"
    /\ eff.k >= wipe_passes(eff.transition)
    /\ pc' = "called"
    /\ UNCHANGED <<MATRIX_WIDTH, MATRIX_HEIGHT, gfx_buffer, spi, op, eff, raised>>

----------------------------------------------------------------------------
(* One wipe of a buffer.                                                   *)

\* GFX_ON, a full-size array and one that is too small.
NewGraphics(nx, ny) ==
    {[kind |-> "int", val |-> GFX_ON],
     [kind |-> "list", val |-> PatternArray(3, nx, ny)],
     [kind |-> "list", val |-> PatternArray(2, 2, 3)]}

InitWipe ==
    /\ InitCommon
    /\ gfx_buffer \in IrregularPatterns(MATRIX_WIDTH, MATRIX_HEIGHT)

NextWipe ==
    \/ \E new_graphic \in NewGraphics(8 * MATRIX_WIDTH, 8 * MATRIX_HEIGHT),
          transition \in Directions :
            wipe_start(new_graphic, transition)
    \/ wipe_step
    \/ wipe_return

SpecWipe == InitWipe /\ [][NextWipe]_vars

InWipe(transitions) ==
    /\ op.name = "gfx_effect_wipe"
    /\ eff.transition \in transitions

\* C9: a diagonal wipe (DIR_RU, DIR_LD, DIR_RD, DIR_LU) takes exactly
\* cols*8 + rows*8 - 1 steps (47 on a 3x3 grid); each step commits one
\* non-empty diagonal of the buffer and renders once; over the sweep every
\* pixel is written exactly once and the buffer ends equal to new_content.
C9_DiagonalWipe ==
    InWipe({DIR_RU, DIR_LD, DIR_RD, DIR_LU}) =>
        /\ ~raised
        /\ eff.renders = eff.k
        /\ eff.k <= 8 * MATRIX_WIDTH + 8 * MATRIX_HEIGHT - 1
        /\ (eff.k >= 1) =>
              /\ Len(spi) = 8
              /\ eff.written # {}
              /\ \E c \in eff.written :
                    eff.written =
                        {d \in Columns \X Rows :
                            IF eff.transition \in {DIR_RU, DIR_LD}
                            THEN d[1] + d[2] = c[1] + c[2]
                            ELSE d[2] - d[1] = c[2] - c[1]}
        /\ \A x \in Columns, y \in Rows : At(eff.writes, x, y) <= 1
        /\ (pc = "called") =>
              /\ eff.k = 8 * MATRIX_WIDTH + 8 * MATRIX_HEIGHT - 1
              /\ (MATRIX_WIDTH = 3 /\ MATRIX_HEIGHT = 3) => eff.k = 47
              /\ \A x \in Columns, y \in Rows : At(eff.writes, x, y) = 1
              /\ gfx_buffer = eff.new_graphic

\* A finished diagonal wipe of the 3x3 grid that changed the buffer.
C9_Witness ==
    /\ InWipe({DIR_RD})
    /\ pc = "called"
    /\ MATRIX_WIDTH = 3 /\ MATRIX_HEIGHT = 3
    /\ eff.k = 47
    /\ gfx_buffer # eff.pre

\* Whether a cardinal wipe has revealed pixel (x, y) after k steps.
Revealed(transition, k, x, y) ==
    CASE transition = DIR_R -> x < k
      [] transition = DIR_L -> x >= 8 * MATRIX_WIDTH - k
      [] transition = DIR_U -> y < k
      [] transition = DIR_D -> y >= 8 * MATRIX_HEIGHT - k

\* C10: a cardinal wipe reveals one full column (DIR_R left to right, DIR_L
\* right to left) or one full row (DIR_U bottom to top, DIR_D top to bottom)
\* per step and renders once per step: after step k the first k columns or
\* rows in sweep order equal new_content and every other pixel holds its
\* value from before the wipe; after cols*8 (rows*8) steps the wipe returns
\* with the buffer equal to new_content.
C10_CardinalWipe ==
    InWipe({DIR_R, DIR_L, DIR_U, DIR_D}) =>
        /\ ~raised
        /\ eff.renders = eff.k
        /\ (eff.k >= 1) => Len(spi) = 8 /\ spi = gfx_render_bursts(gfx_buffer)
        /\ \A x \in Columns, y \in Rows :
              Px(x, y) = IF Revealed(eff.transition, eff.k, x, y)
                         THEN At(eff.new_graphic, x, y)
                         ELSE At(eff.pre, x, y)
        /\ (pc = "called") =>
              /\ eff.k = IF eff.transition \in {DIR_R, DIR_L}
                         THEN 8 * MATRIX_WIDTH ELSE 8 * MATRIX_HEIGHT
              /\ gfx_buffer = eff.new_graphic

\* A downward wipe three steps in, on a grid that is not square, with old
\* and new content both on display.
C10_Witness ==
    /\ InWipe({DIR_D})
    /\ pc = "wipe"
    /\ MATRIX_WIDTH = 2 /\ MATRIX_HEIGHT = 1
    /\ eff.k = 3
    /\ gfx_buffer # eff.pre
    /\ gfx_buffer # eff.new_graphic

----------------------------------------------------------------------------
(* gfx_effect_rain.  A cell of tmp_buffer is <<>> for None and <<v>> for   *)
(* the value v.  The prologue up to the first gfx_render is one step, and  *)
(* each pass of the "for iter" loop is one step; eff.before is tmp_buffer  *)
(* as it was before the last step.                                         *)

\* [randrange(2,6) for c in ...], one assignment for each seed: over the
\* four seeds every column takes every speed.
rain_speeds(seed) ==
    [c \in 1..(8 * MATRIX_WIDTH) |-> 2 + ((c - 1 + seed) % 4)]

\* new_graphic after the padding and cropping at the head of the function.
rain_new_graphic(new_graphic) ==
    normalize_graphic(new_graphic, 8 * MATRIX_WIDTH, 8 * MATRIX_HEIGHT)

\* tmp_buffer before the first render: all None but the top row.
rain_first_tmp(ng) ==
    [c \in 1..(8 * MATRIX_WIDTH) |-> [r \in 1..(8 * MATRIX_HEIGHT) |->
        IF r = 8 * MATRIX_HEIGHT THEN <<ng[c][1]>> ELSE <<>>]]

\* What the loops after gfx_set_all(GFX_OFF) put into gfx_buffer.
rain_show(tmp) ==
    [c \in 1..Len(tmp) |-> [r \in 1..Len(tmp[c]) |->
        IF tmp[c][r] = <<1>> THEN 1 ELSE 0]]

\* emptyCells[0] searched from idx on, or -1 when emptyCells is [].
RECURSIVE first_empty(_, _)
first_empty(col, idx) ==
    IF idx >= Len(col) THEN -1
    ELSE IF col[idx + 1] = <<>> THEN idx
    ELSE first_empty(col, idx + 1)

\* nextNotNone[0] searched from idx on, or -1 when nextNotNone is [].
RECURSIVE next_not_none(_, _)
next_not_none(col, idx) ==
    IF idx >= Len(col) THEN -1
    ELSE IF col[idx + 1] # <<>> THEN idx
    ELSE next_not_none(col, idx + 1)

\* A plausible slip: a pixel always pulled from speed rows above.
rain_nxt_unclamped(nextNotNone, l_row, speed) == l_row + speed

\* nxt = min(nextNotNone[0], l_row + speeds[l_col])
rain_nxt(nextNotNone, l_row, speed) == Min(nextNotNone, l_row + speed)

\* The body of the "for l_row" loop on one column.
rain_row(col, speed, new_val, l_row) ==
    LET nextNotNone == next_not_none(col, l_row + 1)
    IN  IF nextNotNone # -1
        THEN LET nxt == rain_nxt(nextNotNone, l_row, speed)
             IN  IF nxt < Len(col)
                 THEN [[col EXCEPT ![l_row + 1] = col[nxt + 1]]
                            EXCEPT ![nxt + 1] = <<>>]
                 ELSE col
        ELSE IF l_row = Len(col) - 1
             THEN [col EXCEPT ![Len(col)] = <<new_val>>]
             ELSE col

RECURSIVE rain_rows_from(_, _, _, _)
rain_rows_from(col, speed, new_val, l_row) ==
    IF l_row >= Len(col) THEN col
    ELSE rain_rows_from(rain_row(col, speed, new_val, l_row), speed, new_val, l_row + 1)

\* A plausible slip: the "for l_row" loop run from the bottom row, over the
\* pixels that have already landed.
rain_column_from_bottom(col, speed, new_val) ==
    LET firstEmptyCell == first_empty(col, 0)
    IN  IF firstEmptyCell = -1 THEN col
        ELSE rain_rows_from(col, speed, new_val, 0)

\* The body of the "for l_col" loop.
rain_column(col, speed, new_val) ==
    LET firstEmptyCell == first_empty(col, 0)
    IN  IF firstEmptyCell = -1 THEN col
        ELSE rain_rows_from(col, speed, new_val, firstEmptyCell)

rain_start(new_graphic, speeds) ==
    /\ pc = "idle"
    /\ op' = [name |-> "gfx_effect_rain", new_graphic |-> new_graphic]
    /\ IF new_graphic.kind \notin {"list", "mixed"}
       THEN /\ pc' = "called"
            /\ eff' = [name |-> "returned"]
            /\ UNCHANGED <<gfx_buffer, spi>>
       ELSE LET ng == rain_new_graphic(new_graphic)
                tmp == rain_first_tmp(ng)
            IN  /\ pc' = "rain"
                /\ gfx_buffer' = rain_show(tmp)
                /\ spi' = gfx_render_bursts(gfx_buffer')
                /\ eff' = [name |-> "gfx_effect_rain", new_graphic |-> ng,
                           speeds |-> speeds, tmp_buffer |-> tmp,
                           before |-> tmp, iter |-> 1, renders |-> 1]
    /\ UNCHANGED <<MATRIX_WIDTH, MATRIX_HEIGHT, raised>>

rain_step ==
    /\ pc = "rain"
    /\ eff.iter < 8 * MATRIX_HEIGHT
    /\ LET tmp == [c \in 1..(8 * MATRIX_WIDTH) |->
                      rain_column(eff.tmp_buffer[c], eff.speeds[c],
                                  eff.new_graphic[c][eff.iter + 1])]
       IN  /\ gfx_buffer' = rain_show(tmp)
           /\ spi' = gfx_render_bursts(gfx_buffer')
           /\ eff' = [eff EXCEPT !.tmp_buffer = tmp, !.iter = @ + 1,
                                 !.renders = @ + 1,
                                 !.before = eff.tmp_buffer]
    /\ UNCHANGED <<MATRIX_WIDTH, MATRIX_HEIGHT, pc, op, raised>>

rain_return ==
    /\ pc = "rain"
    /\ eff.iter >= 8 * MATRIX_HEIGHT
    /\ pc' = "called"
    /\ UNCHANGED <<MATRIX_WIDTH, MATRIX_HEIGHT, gfx_buffer, spi, op, eff, raised>>

----------------------------------------------------------------------------
(* One rain effect on a buffer.                                            *)

Seeds == 0..3

\* Full-size arrays, one that is too small, and an argument that is no list.
RainGraphics(nx, ny) ==
    {[kind |-> "list", val |-> PatternArray(k, nx, ny)] : k \in 1..MaxPattern}
        \cup {[kind |-> "list", val |-> PatternArray(2, 2, 3)],
              [kind |-> "int", val |-> GFX_ON]}

InitRain ==
    /\ InitCommon
    /\ gfx_buffer = PatternArray(2, 8 * MATRIX_WIDTH, 8 * MATRIX_HEIGHT)

NextRain ==
    \/ \E new_graphic \in RainGraphics(8 * MATRIX_WIDTH, 8 * MATRIX_HEIGHT),
          seed \in Seeds :
            rain_start(new_graphic, rain_speeds(seed))
    \/ rain_step
    \/ rain_return

SpecRain == InitRain /\ [][NextRain]_vars

\* C8: for any grid and any per-column speeds from 2..5, gfx_effect_rain
\* renders once per step, never more than rows*8 times, and returns after
\* exactly rows*8 renders with the buffer equal to new_content: pixel (c, r)
\* is on iff new_content[c][r] = 1.
C8_Rain ==
    (eff.name = "gfx_effect_rain") =>
        /\ ~raised
        /\ \A c \in Columns : eff.speeds[c + 1] \in 2..5
        /\ eff.renders = eff.iter
        /\ eff.iter <= 8 * MATRIX_HEIGHT
        /\ spi = gfx_render_bursts(gfx_buffer)
        /\ (pc = "called") =>
              /\ eff.renders = 8 * MATRIX_HEIGHT
              /\ \A c \in Columns, r \in Rows :
                    (Px(c, r) = 1) <=> (At(eff.new_graphic, c, r) = 1)

\* A finished rain on the 3x3 grid that left pixels on and pixels off.
C8_Witness ==
    /\ eff.name = "gfx_effect_rain"
    /\ pc = "called"
    /\ MATRIX_WIDTH = 3 /\ MATRIX_HEIGHT = 3
    /\ eff.renders = 24
    /\ \E c \in Columns, r \in Rows : Px(c, r) = 1
    /\ \E c \in Columns, r \in Rows : Px(c, r) = 0

\* The rows, 1-based and from the bottom up, of the cells of a column of
\* tmp_buffer that hold a pixel.
Occupied(col) ==
    SelectSeq([r \in 1..Len(col) |-> r], LAMBDA r : col[r] # <<>>)

\* C28: during gfx_effect_rain, after every step and for every column c and
\* every speed in 2..5, the occupied cells of the column read from the
\* bottom up hold new_content[c][0], ..., new_content[c][k] in that order
\* for the step number k: no pixel is lost, duplicated or overtaken, no
\* pixel moves upward, and a pixel moves down by at most speeds[c] rows in
\* one step.
C28_RainOrder ==
    (eff.name = "gfx_effect_rain") =>
        \A c \in 1..(8 * MATRIX_WIDTH) :
            LET now == Occupied(eff.tmp_buffer[c])
                was == Occupied(eff.before[c])
            IN  /\ eff.speeds[c] \in 2..5
                /\ Len(now) = eff.iter
                /\ Len(was) \in {Len(now) - 1, Len(now)}
                /\ \A j \in 1..Len(now) :
                      eff.tmp_buffer[c][now[j]] = <<eff.new_graphic[c][j]>>
                /\ \A j \in 1..Len(was) :
                      /\ now[j] <= was[j]
                      /\ was[j] - now[j] <= eff.speeds[c]

\* A step on a grid two chips high in which a pixel of a column of speed 5
\* fell by five rows and is still in the air, above an empty cell.
C28_Witness ==
    /\ eff.name = "gfx_effect_rain"
    /\ pc = "rain"
    /\ MATRIX_HEIGHT = 2
    /\ \E c \in 1..(8 * MATRIX_WIDTH) :
          LET now == Occupied(eff.tmp_buffer[c])
              was == Occupied(eff.before[c])
          IN  /\ eff.speeds[c] = 5
              /\ \E j \in 1..Len(was) :
                    /\ was[j] - now[j] = 5
                    /\ now[j] > j

----------------------------------------------------------------------------
(* gfx_scroll_towards.  Each pass of an inner "for" loop (gfx_scroll by    *)
(* one pixel, gfx_render, sleep) is one step; i counts the steps taken in  *)
(* the current pass of the "while" loop.                                   *)

MaxPasses == 2

\* new_graphic after the "errorhandling" block of gfx_scroll_towards.
towards_new_graphic(new_graphic) ==
    normalize_graphic(new_graphic, 8 * MATRIX_WIDTH, 8 * MATRIX_HEIGHT)

\* The branch of the if/elif chain a direction takes, named by the flag it
\* tests; 0 when it takes none.
towards_branch(direction) ==
    IF HasFlag(direction, DIR_L) THEN DIR_L
    ELSE IF HasFlag(direction, DIR_R) THEN DIR_R
    ELSE IF HasFlag(direction, DIR_U) THEN DIR_U
    ELSE IF HasFlag(direction, DIR_D) THEN DIR_D
    ELSE 0

\* The number of steps of one pass.
towards_pass_steps(direction) ==
    IF towards_branch(direction) \in {DIR_L, DIR_R} THEN 8 * MATRIX_WIDTH
    ELSE IF towards_branch(direction) \in {DIR_U, DIR_D} THEN 8 * MATRIX_HEIGHT
    ELSE 0

\* A plausible slip: every pass reading new_graphic in ascending order.
towards_loop_value_ascending(direction, i) == i

\* The loop variable (l_col or l_row) of step i of a pass, counted from 0:
\* the range is reversed for DIR_R and DIR_U.
towards_loop_value(direction, i) ==
    IF towards_branch(direction) \in {DIR_R, DIR_U}
    THEN towards_pass_steps(direction) - 1 - i
    ELSE i

\* The array "graphic" handed to gfx_scroll for loop variable v.
towards_graphic(direction, ng, v) ==
    LET ny == 8 * MATRIX_HEIGHT
        b == towards_branch(direction)
    IN  IF b = DIR_L THEN <<ng[v + 1]>>
        ELSE IF b = DIR_R THEN Fill(Fill(0, ny), Len(ng) - 1) \o <<ng[v + 1]>>
        ELSE IF b = DIR_U
             THEN [col \in 1..Len(ng) |-> Fill(0, ny - 1) \o <<ng[col][v + 1]>>]
        ELSE [col \in 1..Len(ng) |-> <<ng[col][v + 1]>> \o Fill(0, ny - 1)]

\* A plausible slip: one pass too many.
towards_continue_inclusive(indef, repeats) == indef \/ repeats >= 0

\* The condition of the "while" loop.
towards_continue(indef, repeats) == indef \/ repeats > 0

towards_start(new_graphic, repeats, direction) ==
    /\ pc = "idle"
    /\ pc' = "towards"
    /\ eff' = [name |-> "gfx_scroll_towards",
               new_graphic |-> towards_new_graphic(new_graphic),
               old_graphic |-> gfx_buffer,
               indef |-> (repeats <= 0), repeats |-> repeats,
               direction |-> direction,
               i |-> 0, passes |-> 0, steps |-> 0, renders |-> 0,
               n |-> repeats, start |-> gfx_buffer,
               target |-> towards_new_graphic(new_graphic),
               before |-> gfx_buffer]
    /\ op' = [name |-> "gfx_scroll_towards", new_graphic |-> new_graphic]
    /\ UNCHANGED <<MATRIX_WIDTH, MATRIX_HEIGHT, gfx_buffer, spi, raised>>

\* One step of a pass; the first also decrements repeats, the last also
\* swaps new_graphic and old_graphic.
towards_step ==
    /\ pc = "towards"
    /\ IF eff.i = 0 THEN towards_continue(eff.indef, eff.repeats) ELSE TRUE
    /\ eff.indef => eff.passes < MaxPasses
    /\ LET repeats == IF eff.i = 0 THEN eff.repeats - 1 ELSE eff.repeats
           total == towards_pass_steps(eff.direction)
           graphic == towards_graphic(eff.direction, eff.new_graphic,
                                      towards_loop_value(eff.direction, eff.i))
           st == gfx_scroll_result(gfx_buffer, towards_branch(eff.direction),
                                   [kind |-> "list", val |-> graphic],
                                   0, 8 * MATRIX_WIDTH, 0, 8 * MATRIX_HEIGHT, 1)
           last == eff.i + 1 >= total
       IN  IF total = 0
           THEN /\ eff' = [eff EXCEPT !.repeats = repeats, !.passes = @ + 1,
                                      !.new_graphic = eff.old_graphic,
                                      !.old_graphic = eff.new_graphic]
                /\ UNCHANGED <<gfx_buffer, spi, pc, raised>>
           ELSE IF st.raised
           THEN /\ gfx_buffer' = st.buf
                /\ raised' = TRUE
                /\ pc' = "called"
                /\ UNCHANGED <<spi, eff>>
           ELSE /\ gfx_buffer' = st.buf
                /\ spi' = gfx_render_bursts(gfx_buffer')
                /\ eff' = [eff EXCEPT !.repeats = repeats,
                                      !.i = IF last THEN 0 ELSE @ + 1,
                                      !.passes = IF last THEN @ + 1 ELSE @,
                                      !.steps = @ + 1, !.renders = @ + 1,
                                      !.before = gfx_buffer,
                                      !.new_graphic = IF last THEN eff.old_graphic ELSE @,
                                      !.old_graphic = IF last THEN eff.new_graphic ELSE @]
                /\ UNCHANGED <<pc, raised>>
    /\ UNCHANGED <<MATRIX_WIDTH, MATRIX_HEIGHT, op>>

towards_return ==
    /\ pc = "towards"
    /\ eff.i = 0
    /\ ~towards_continue(eff.indef, eff.repeats)
    /\ pc' = "called"
    /\ UNCHANGED <<MATRIX_WIDTH, MATRIX_HEIGHT, gfx_buffer, spi, op, eff, raised>>

----------------------------------------------------------------------------
(* One gfx_scroll_towards on a buffer.                                     *)

Cardinals == {DIR_L, DIR_R, DIR_U, DIR_D}

\* 0 scrolls for ever, followed here for MaxPasses passes.
Repeats == {0, 1, 2}

\* A full-size array and one that is too small.
TowardsGraphics(nx, ny) ==
    {[kind |-> "list", val |-> PatternArray(3, nx, ny)],
     [kind |-> "list", val |-> PatternArray(2, 2, 3)]}

InitTowards ==
    /\ InitCommon
    /\ gfx_buffer = PatternArray(2, 8 * MATRIX_WIDTH, 8 * MATRIX_HEIGHT)

NextTowards ==
    \/ \E new_graphic \in TowardsGraphics(8 * MATRIX_WIDTH, 8 * MATRIX_HEIGHT),
          repeats \in Repeats, direction \in Cardinals :
            towards_start(new_graphic, repeats, direction)
    \/ towards_step
    \/ towards_return

SpecTowards == InitTowards /\ [][NextTowards]_vars

InTowards ==
    /\ eff.name = "gfx_scroll_towards"
    /\ eff.direction \in Cardinals

\* C11: in gfx_scroll_towards the passes alternate between new and old
\* content: between passes the buffer equals new_content (padded and cropped
\* to the buffer size) after an odd number of passes and the buffer as it
\* was at call time after an even number, and the content the next pass
\* scrolls in is the other of the two; so it is at return, after n passes.
C11_PingPong ==
    (InTowards /\ eff.i = 0) =>
        /\ ~raised
        /\ gfx_buffer = IF eff.passes % 2 = 1 THEN eff.target ELSE eff.start
        /\ eff.new_graphic = IF eff.passes % 2 = 1 THEN eff.start ELSE eff.target
        /\ (pc = "called") => eff.passes = eff.n

\* Two passes asked for, the first one done: the buffer shows the new
\* content, which differs from the old.
C11_Witness ==
    /\ InTowards
    /\ pc = "towards"
    /\ eff.n = 2 /\ eff.passes = 1 /\ eff.i = 0
    /\ eff.direction = DIR_R
    /\ gfx_buffer = eff.target
    /\ eff.target # eff.start

\* Whether buffer b is buffer a shifted by one pixel in a direction, the
\* line that enters left open.
ShiftedByOne(direction, a, b) ==
    \A x \in Columns, y \in Rows :
        CASE direction = DIR_L -> (x + 1 \in Columns) => At(b, x, y) = At(a, x + 1, y)
          [] direction = DIR_R -> (x - 1 \in Columns) => At(b, x, y) = At(a, x - 1, y)
          [] direction = DIR_U -> (y - 1 \in Rows) => At(b, x, y) = At(a, x, y - 1)
          [] direction = DIR_D -> (y + 1 \in Rows) => At(b, x, y) = At(a, x, y + 1)

\* C12: gfx_scroll_towards with repeats = n >= 1 returns after exactly
\* n*cols*8 steps for DIR_L and DIR_R and n*rows*8 steps for DIR_U and
\* DIR_D; each step shifts the whole buffer by one pixel and renders once;
\* with repeats <= 0 it does not return.
C12_TowardsSteps ==
    InTowards =>
        /\ ~raised
        /\ eff.renders = eff.steps
        /\ (eff.steps >= 1) =>
              /\ ShiftedByOne(eff.direction, eff.before, gfx_buffer)
              /\ spi = gfx_render_bursts(gfx_buffer)
        /\ (eff.n <= 0) => pc = "towards"
        /\ (eff.n >= 1) =>
              eff.steps <= eff.n * (IF eff.direction \in {DIR_L, DIR_R}
                                    THEN 8 * MATRIX_WIDTH ELSE 8 * MATRIX_HEIGHT)
        /\ (pc = "called") =>
              eff.steps = eff.n * (IF eff.direction \in {DIR_L, DIR_R}
                                   THEN 8 * MATRIX_WIDTH ELSE 8 * MATRIX_HEIGHT)

\* A returned upward scroll of two passes on a grid that is not square.
C12_Witness ==
    /\ InTowards
    /\ pc = "called"
    /\ eff.n = 2
    /\ eff.direction = DIR_U
    /\ MATRIX_WIDTH = 2 /\ MATRIX_HEIGHT = 1
    /\ eff.steps = 16

----------------------------------------------------------------------------
(* Text output.  A message is a sequence of character codes.  The display  *)
(* is a function from chip index to the eight values of its digit          *)
(* registers; eff.shown is the display before the bursts in spi were sent. *)

\* A font is a lookup from a character code to eight column bytes.  The
\* table stands in for CP437_FONT: one glyph for each code, no two alike,
\* the space blank.
DEFAULT_FONT(code) ==
    [col \in 1..8 |-> IF code = 32 THEN 0 ELSE (7 * code + 13 * col) % 256]

\* l[0] + l[1] + ... for a list of lists.
RECURSIVE Concat(_)
Concat(l) == IF l = <<>> THEN <<>> ELSE Head(l) \o Concat(Tail(l))

\* The pairs <<a, b>> in the order the loops "for a in outer: for b in
\* inner" visit them.
LoopPairs(outer, inner) ==
    [k \in 1..(Len(outer) * Len(inner)) |->
        <<outer[((k - 1) \div Len(inner)) + 1], inner[((k - 1) % Len(inner)) + 1]>>]

\* range(n) and reversed(range(n)).
Range(n) == [k \in 1..n |-> k - 1]
ReversedRange(n) == [k \in 1..n |-> n - k]

\* The registers of one chip after a burst: the pair at position p lands on
\* chip NUM_MATRICES-1-p, and a digit register takes its data.
latch(regs, pair) ==
    IF pair[1] \in 1..8 THEN [regs EXCEPT ![pair[1]] = pair[2]] ELSE regs

\* The display after a sequence of bursts.
RECURSIVE Show(_, _)
Show(display, bursts) ==
    IF bursts = <<>> THEN display
    ELSE Show([i \in 0..(NUM_MATRICES - 1) |->
                  latch(display[i], PairAt(Head(bursts), NUM_MATRICES - 1 - i))],
              Tail(bursts))

\* The display as it is now.
Display == Show(eff.shown, spi)

\* trim(text, length)
trim(text, length) == Take(text \o Fill(32, length), length)

\* The bursts send_matrix_letter sends.
send_matrix_letter_bursts(matrix, char_code) ==
    IF matrix \in MATRICES
    THEN Concat([col \in 1..8 |->
            send_matrix_reg_byte_bursts(matrix, col, DEFAULT_FONT(char_code % 256)[col])])
    ELSE <<>>

send_matrix_letter(matrix, char_code) ==
    /\ pc = "idle"
    /\ spi' = send_matrix_letter_bursts(matrix, char_code)
    /\ op' = [name |-> "send_matrix_letter", matrix |-> matrix, char_code |-> char_code]
    /\ pc' = "called"
    /\ raised' = FALSE
    /\ UNCHANGED <<MATRIX_WIDTH, MATRIX_HEIGHT, gfx_buffer, eff>>

\* show_char[col] of send_matrix_shifted_letter, col counted from 0.
shifted_show_char(curr_char, next_char, progress, direction, col) ==
    IF direction = DIR_L
    THEN IF col + progress < 8 THEN curr_char[col + progress + 1]
         ELSE next_char[col + progress - 8 + 1]
    ELSE IF direction = DIR_R
    THEN IF col >= progress THEN curr_char[col - progress + 1]
         ELSE next_char[col - progress + 8 + 1]
    ELSE IF direction = DIR_U
    THEN (curr_char[col + 1] \div Pow2(progress)) + next_char[col + 1] * Pow2(8 - progress)
    ELSE (curr_char[col + 1] * Pow2(progress)) + (next_char[col + 1] \div Pow2(8 - progress))

\* The bursts send_matrix_shifted_letter sends.
send_matrix_shifted_letter_bursts(matrix, curr_code, next_code, progress, direction) ==
    IF matrix \in MATRICES /\ direction \in {DIR_L, DIR_R, DIR_U, DIR_D}
    THEN Concat([c \in 1..8 |->
            send_matrix_reg_byte_bursts(matrix, c,
                shifted_show_char(DEFAULT_FONT(curr_code % 256),
                                  DEFAULT_FONT(next_code % 256),
                                  progress % 8, direction, c - 1))])
    ELSE <<>>

send_matrix_shifted_letter(matrix, curr_code, next_code, progress, direction) ==
    /\ pc = "idle"
    /\ spi' = send_matrix_shifted_letter_bursts(matrix, curr_code, next_code,
                                                progress, direction)
    /\ op' = [name |-> "send_matrix_shifted_letter", matrix |-> matrix,
              curr_code |-> curr_code, next_code |-> next_code,
              progress |-> progress, direction |-> direction]
    /\ pc' = "called"
    /\ raised' = FALSE
    /\ UNCHANGED <<MATRIX_WIDTH, MATRIX_HEIGHT, gfx_buffer, eff>>

\* The bursts clear sends.
clear_bursts(matrix_list) ==
    Concat([k \in 1..Len(matrix_list) |->
        IF matrix_list[k] \in MATRICES
        THEN Concat([col \in 1..8 |-> send_matrix_reg_byte_bursts(matrix_list[k], col, 0)])
        ELSE <<>>])

clear(matrix_list) ==
    /\ pc = "idle"
    /\ spi' = clear_bursts(matrix_list)
    /\ op' = [name |-> "clear", matrix_list |-> matrix_list]
    /\ pc' = "called"
    /\ raised' = FALSE
    /\ UNCHANGED <<MATRIX_WIDTH, MATRIX_HEIGHT, gfx_buffer, eff>>

\* A plausible slip: the chip index computed row-major.
static_matrix_row_major(l_col, l_row) == l_col + l_row * MATRIX_WIDTH

\* matrix = l_row + l_col*MATRIX_HEIGHT
\* A plausible slip: the column stride taken from the grid's width.
static_matrix_by_width(l_col, l_row) == l_row + l_col * MATRIX_WIDTH

static_matrix(l_col, l_row) == l_row + l_col * MATRIX_HEIGHT

\* The cells <<l_col, l_row>> in the order static_message visits them.
static_cells(direction) ==
    LET swap(l) == [k \in 1..Len(l) |-> <<l[k][2], l[k][1]>>]
    IN  IF direction = DIR_RD \/ direction = DIR_R
        THEN swap(LoopPairs(ReversedRange(MATRIX_HEIGHT), Range(MATRIX_WIDTH)))
        ELSE IF direction = DIR_RU
        THEN swap(LoopPairs(Range(MATRIX_HEIGHT), Range(MATRIX_WIDTH)))
        ELSE IF direction = DIR_D
        THEN LoopPairs(Range(MATRIX_WIDTH), ReversedRange(MATRIX_HEIGHT))
        ELSE IF direction = DIR_U
        THEN LoopPairs(Range(MATRIX_WIDTH), Range(MATRIX_HEIGHT))
        ELSE <<>>

\* The bursts static_message sends: idx runs along the trimmed message.
static_message_bursts(message, direction) ==
    LET text == trim(message, NUM_MATRICES)
        cells == static_cells(direction)
    IN  Concat([idx \in 1..Len(cells) |->
            send_matrix_letter_bursts(static_matrix(cells[idx][1], cells[idx][2]),
                                      text[idx])])

static_message(message, direction) ==
    /\ pc = "idle"
    /\ spi' = static_message_bursts(message, direction)
    /\ op' = [name |-> "static_message", message |-> message, direction |-> direction]
    /\ pc' = "called"
    /\ raised' = FALSE
    /\ UNCHANGED <<MATRIX_WIDTH, MATRIX_HEIGHT, gfx_buffer, eff>>

----------------------------------------------------------------------------
(* One text or register call on a display with every LED lit.              *)

LitDisplay == [i \in 0..(NUM_MATRICES - 1) |-> [col \in 1..8 |-> 255]]

\* The empty message, "Hi", one of exactly n characters and one of n + 2.
Messages(n) ==
    {<<>>, <<72, 105>>, [k \in 1..n |-> 64 + k], [k \in 1..(n + 2) |-> 96 + k]}

\* Lists of chip indices: valid, invalid and mixed.
MatrixLists ==
    {<<>>, <<0>>, <<-1, 0, NUM_MATRICES>>, <<NUM_MATRICES - 1, NUM_MATRICES, 0, 0>>,
     <<NUM_MATRICES + 5, -1>>}

InitText ==
    /\ \E g \in Grids : MATRIX_WIDTH = g[1] /\ MATRIX_HEIGHT = g[2]
    /\ gfx_buffer = ZeroBuffer(MATRIX_WIDTH, MATRIX_HEIGHT)
    /\ spi = <<>>
    /\ pc = "idle"
    /\ op = [name |-> "none"]
    /\ eff = [name |-> "none", shown |-> LitDisplay]
    /\ raised = FALSE

NextText ==
    \/ \E matrix \in {-1, 0, NUM_MATRICES - 1, NUM_MATRICES},
          register \in {1, 8}, data \in {0, 85} :
            pc = "idle" /\ send_matrix_reg_byte(matrix, register, data)
    \/ \E matrix \in {-1, 0, NUM_MATRICES - 1, NUM_MATRICES}, char_code \in {32, 65, 321} :
            send_matrix_letter(matrix, char_code)
    \/ \E matrix \in {-1, 0, NUM_MATRICES - 1, NUM_MATRICES}, progress \in {0, 3, 9},
          direction \in Cardinals \cup {DIR_RU} :
            send_matrix_shifted_letter(matrix, 65, 66, progress, direction)
    \/ \E matrix_list \in MatrixLists : clear(matrix_list)
    \/ \E message \in Messages(NUM_MATRICES),
          direction \in {DIR_RD, DIR_RU, DIR_D, DIR_U, DIR_R, DIR_L} :
            static_message(message, direction)

SpecText == InitText /\ [][NextText]_vars

\* The chip that character k of a message goes to, as <<chip_col, chip_row>>.
CharCell(direction, k) ==
    CASE direction = DIR_RD -> <<k % MATRIX_WIDTH, MATRIX_HEIGHT - 1 - (k \div MATRIX_WIDTH)>>
      [] direction = DIR_RU -> <<k % MATRIX_WIDTH, k \div MATRIX_WIDTH>>
      [] direction = DIR_D -> <<k \div MATRIX_HEIGHT, MATRIX_HEIGHT - 1 - (k % MATRIX_HEIGHT)>>
      [] direction = DIR_U -> <<k \div MATRIX_HEIGHT, k % MATRIX_HEIGHT>>

CharChip(direction, k) == CharCell(direction, k)[2] + CharCell(direction, k)[1] * MATRIX_HEIGHT

\* Character k of a message padded with spaces.
CharAt(message, k) == IF k < Len(message) THEN message[k + 1] ELSE 32

\* C15: for a message of any length static_message writes exactly chip_count
\* characters, eight column writes to each chip, every chip once; character
\* k is message[k], or a space when k >= len(message), and goes to chip
\* chip_row + chip_col*rows with (chip_col, chip_row) = (k mod cols,
\* rows-1 - k div cols) for DIR_RD, (k mod cols, k div cols) for DIR_RU,
\* (k div rows, rows-1 - k mod rows) for DIR_D, (k div rows, k mod rows) for
\* DIR_U.
C15_StaticMessage ==
    (op.name = "static_message" /\ op.direction \in {DIR_RD, DIR_RU, DIR_D, DIR_U}) =>
        /\ ~raised
        /\ Len(spi) = 8 * NUM_MATRICES
        /\ {CharChip(op.direction, k) : k \in 0..(NUM_MATRICES - 1)} = 0..(NUM_MATRICES - 1)
        /\ \A k \in 0..(NUM_MATRICES - 1), col \in 1..8 :
              /\ Len(spi[8 * k + col]) = 2 * NUM_MATRICES
              /\ \A p \in 0..(NUM_MATRICES - 1) :
                    PairAt(spi[8 * k + col], p) =
                        IF p = NUM_MATRICES - 1 - CharChip(op.direction, k)
                        THEN <<col, DEFAULT_FONT(CharAt(op.message, k))[col]>>
                        ELSE <<0, 0>>
        /\ \A k \in 0..(NUM_MATRICES - 1) :
              Display[CharChip(op.direction, k)] = DEFAULT_FONT(CharAt(op.message, k))

\* A message longer than the grid, written column by column on a grid that
\* is not square.
C15_Witness ==
    /\ op.name = "static_message"
    /\ op.direction = DIR_D
    /\ MATRIX_WIDTH = 1 /\ MATRIX_HEIGHT = 2
    /\ Len(op.message) > NUM_MATRICES
    /\ Len(spi) = 16
    /\ Display # LitDisplay

\* C18: send_matrix_reg_byte, send_matrix_letter, send_matrix_shifted_letter
\* and clear given a chip index outside [0, chip_count) send nothing and
\* raise no error; clear on a list mixing valid and invalid indices clears
\* the valid chips and no other.
C18_BadChipIndex ==
    /\ (op.name \in {"send_matrix_reg_byte", "send_matrix_letter",
                     "send_matrix_shifted_letter"}
            /\ op.matrix \notin 0..(NUM_MATRICES - 1)) =>
          spi = <<>> /\ ~raised /\ Display = eff.shown
    /\ (op.name = "clear") =>
          LET valid == {op.matrix_list[k] : k \in 1..Len(op.matrix_list)}
                          \cap (0..(NUM_MATRICES - 1))
          IN  /\ ~raised
              /\ Len(spi) = 8 * Cardinality({k \in 1..Len(op.matrix_list) :
                                                op.matrix_list[k] \in 0..(NUM_MATRICES - 1)})
              /\ \A i \in 0..(NUM_MATRICES - 1) :
                    Display[i] = IF i \in valid THEN [col \in 1..8 |-> 0]
                                 ELSE eff.shown[i]

\* A clear of a mixed list that blanked one chip and left another lit.
C18_Witness ==
    /\ op.name = "clear"
    /\ op.matrix_list = <<-1, 0, NUM_MATRICES>>
    /\ NUM_MATRICES >= 2
    /\ Display[0] = [col \in 1..8 |-> 0]
    /\ Display[1] = [col \in 1..8 |-> 255]

----------------------------------------------------------------------------
(* scroll_message_vert.  Each pass of the "for stage" loop (eight bursts,  *)
(* one for each column register, then sleep) is one step.  eff.sent counts *)
(* the bursts sent since the call and eff.initial is the display before it.*)

\* position of a chip in the message, as scroll_message_vert computes it.
vert_position(matrix) ==
    (matrix \div MATRIX_HEIGHT)
        + (MATRIX_HEIGHT - 1 - (matrix % MATRIX_WIDTH)) * MATRIX_WIDTH

\* The indices of this_char and next_char: <<message, index>> with message
\* "old" or "new".
vert_char_index(direction, matrix, shift) ==
    LET position == vert_position(matrix)
    IN  IF direction = DIR_U
        THEN IF position + shift * MATRIX_WIDTH < NUM_MATRICES
             THEN <<"old", position + shift * MATRIX_WIDTH>>
             ELSE <<"new", position + shift * MATRIX_WIDTH - MATRIX_WIDTH * MATRIX_HEIGHT>>
        ELSE IF position - shift * MATRIX_WIDTH < 0
             THEN <<"new", MATRIX_WIDTH * MATRIX_HEIGHT + position - shift * MATRIX_WIDTH>>
             ELSE <<"old", position - shift * MATRIX_WIDTH>>

\* Whether a step of pass iter indexes a message outside its length.
vert_raises(e, iter) ==
    /\ e.direction \in {DIR_U, DIR_D}
    /\ \E matrix \in MATRICES, shift \in {iter, iter + 1} :
          ~IndexOK(NUM_MATRICES, vert_char_index(e.direction, matrix, shift)[2])

\* font[ord(message[index])]
vert_char(e, ix) ==
    LET message == IF ix[1] = "old" THEN e.old_message ELSE e.new_message
    IN  DEFAULT_FONT(message[Pos(Len(message), ix[2])])

\* scrolled_char[col], col counted from 0.
vert_scrolled_char(e, matrix, iter, stage, col) ==
    LET this_char == vert_char(e, vert_char_index(e.direction, matrix, iter))
        next_char == vert_char(e, vert_char_index(e.direction, matrix, iter + 1))
    IN  IF e.direction = DIR_U
        THEN (this_char[col + 1] \div Pow2(stage)) + next_char[col + 1] * Pow2(8 - stage)
        ELSE IF e.direction = DIR_D
        THEN this_char[col + 1] * Pow2(stage) + (next_char[col + 1] \div Pow2(8 - stage))
        ELSE 0

\* The eight bursts of one step: column_data lists the chips from the last
\* to the first.
vert_bursts(e, iter, stage) ==
    [c \in 1..8 |->
        Concat([p \in 1..NUM_MATRICES |->
            <<c, vert_scrolled_char(e, NUM_MATRICES - p, iter, stage, c - 1)>>])]

scroll_message_vert_start(old_message, new_message, direction, finish) ==
    /\ pc = "idle"
    /\ pc' = "vert"
    /\ eff' = [name |-> "scroll_message_vert", shown |-> Display, initial |-> Display,
               old_message |-> trim(old_message, NUM_MATRICES),
               new_message |-> trim(new_message, NUM_MATRICES),
               direction |-> direction, finish |-> finish,
               steps |-> 0, sent |-> 0]
    /\ op' = [name |-> "scroll_message_vert"]
    /\ spi' = <<>>
    /\ UNCHANGED <<MATRIX_WIDTH, MATRIX_HEIGHT, gfx_buffer, raised>>

scroll_message_vert_step ==
    /\ pc = "vert"
    /\ eff.steps < 8 * MATRIX_HEIGHT
    /\ LET iter == eff.steps \div 8
           stage == eff.steps % 8
       IN  IF vert_raises(eff, iter)
           THEN /\ raised' = TRUE
                /\ pc' = "called"
                /\ UNCHANGED <<spi, eff>>
           ELSE /\ spi' = vert_bursts(eff, iter, stage)
                /\ eff' = [eff EXCEPT !.shown = Display, !.steps = @ + 1,
                                      !.sent = @ + 8]
                /\ UNCHANGED <<pc, raised>>
    /\ UNCHANGED <<MATRIX_WIDTH, MATRIX_HEIGHT, gfx_buffer, op>>

\* The end of the function: static_message(new_message) if finish.
scroll_message_vert_return ==
    /\ pc = "vert"
    /\ eff.steps >= 8 * MATRIX_HEIGHT
    /\ pc' = "called"
    /\ IF eff.finish
       THEN /\ spi' = static_message_bursts(eff.new_message, DIR_RD)
            /\ eff' = [eff EXCEPT !.shown = Display, !.sent = @ + Len(spi')]
       ELSE UNCHANGED <<spi, eff>>
    /\ UNCHANGED <<MATRIX_WIDTH, MATRIX_HEIGHT, gfx_buffer, op, raised>>

----------------------------------------------------------------------------
(* scroll_message_horiz and scroll_text_once.  Each pass of the "for       *)
(* stage" loop of scroll_text_once (eight bursts, then sleep) is one step; *)
(* eff.k counts the steps taken in the current call of scroll_text_once;   *)
(* eff.step_texts, eff.start_char and eff.stage are those of the last step.*)

\* m[-n:] and PAD_STRING[:n]
LastN(m, n) == IF Len(m) <= n THEN m ELSE SubSeq(m, Len(m) - n + 1, Len(m))
Pad(n) == Fill(32, n)

\* messages after the padding to the longest and the fitting to the rows.
horiz_messages(messages) ==
    LET longest_msg == CHOOSE n \in {Len(messages[r]) : r \in 1..Len(messages)} :
                          \A r \in 1..Len(messages) : Len(messages[r]) <= n
        padded == [r \in 1..Len(messages) |->
                      IF Len(messages[r]) < longest_msg
                      THEN trim(messages[r], longest_msg) ELSE messages[r]]
    IN  Take(Times(padded, MATRIX_HEIGHT), MATRIX_HEIGHT)

\* A plausible slip: the first scroll started with the message on display.
horiz_first_texts_wrapped(messages, direction) ==
    IF direction = DIR_L
    THEN [r \in 1..Len(messages) |-> LastN(messages[r], MATRIX_WIDTH) \o messages[r]]
    ELSE [r \in 1..Len(messages) |-> messages[r] \o Take(messages[r], MATRIX_WIDTH)]

\* scroll_texts of the first scroll: blanks in front of the messages.
horiz_first_texts(messages, direction) ==
    IF direction = DIR_L
    THEN [r \in 1..Len(messages) |-> Pad(MATRIX_WIDTH) \o messages[r]]
    ELSE [r \in 1..Len(messages) |-> messages[r] \o Pad(MATRIX_WIDTH)]

\* scroll_texts of the later scrolls: the messages in front of themselves.
horiz_wrapped_texts(messages, direction) ==
    IF direction = DIR_L
    THEN [r \in 1..Len(messages) |-> LastN(messages[r], MATRIX_WIDTH) \o messages[r]]
    ELSE [r \in 1..Len(messages) |-> messages[r] \o Take(messages[r], MATRIX_WIDTH)]

\* scroll_texts of the last scroll: blanks behind the messages.
horiz_last_texts(messages, direction) ==
    IF direction = DIR_L
    THEN [r \in 1..Len(messages) |-> LastN(messages[r], MATRIX_WIDTH) \o Pad(MATRIX_WIDTH)]
    ELSE [r \in 1..Len(messages) |-> Pad(MATRIX_WIDTH) \o Take(messages[r], MATRIX_WIDTH)]

\* The number of steps of scroll_text_once(texts, ...).
once_steps(texts) == 8 * Max(0, Len(texts[1]) - MATRIX_WIDTH)

\* start_char of step k of scroll_text_once.
once_start_char(texts, direction, k) ==
    IF direction = DIR_L THEN k \div 8
    ELSE (Len(texts[1]) - MATRIX_WIDTH) - 1 - (k \div 8)

\* A plausible slip: the chips' characters counted from the other end of
\* the chain.
once_char_index_mirrored(direction, matrix, start_char) ==
    LET base == start_char + (matrix \div MATRIX_HEIGHT) + 1
    IN  IF direction = DIR_L THEN <<base - 1, base>> ELSE <<base, base - 1>>

\* The indices of this_char and next_char in the row of a chip.
once_char_index(direction, matrix, start_char) ==
    LET base == start_char + MATRIX_WIDTH - (matrix \div MATRIX_HEIGHT)
    IN  IF direction = DIR_L THEN <<base - 1, base>> ELSE <<base, base - 1>>

\* Whether a step indexes a text outside its length.
once_raises(texts, direction, start_char) ==
    \E matrix \in MATRICES, j \in 1..2 :
        ~IndexOK(Len(texts[(matrix % MATRIX_HEIGHT) + 1]),
                 once_char_index(direction, matrix, start_char)[j])

\* The byte of one chip in column register col + 1.
once_byte(texts, direction, matrix, start_char, stage, col) ==
    LET text == texts[(matrix % MATRIX_HEIGHT) + 1]
        ix == once_char_index(direction, matrix, start_char)
        this_char == DEFAULT_FONT(text[Pos(Len(text), ix[1])])
        next_char == DEFAULT_FONT(text[Pos(Len(text), ix[2])])
    IN  IF direction = DIR_L
        THEN IF col + stage < 8 THEN this_char[col + stage + 1]
             ELSE next_char[col + stage - 8 + 1]
        ELSE IF col >= stage THEN this_char[col - stage + 1]
             ELSE next_char[col - stage + 8 + 1]

\* The eight bursts of one step: column_data lists the chips from the first
\* to the last.
once_bursts(texts, direction, start_char, stage) ==
    [c \in 1..8 |->
        Concat([p \in 1..NUM_MATRICES |->
            <<c, once_byte(texts, direction, p - 1, start_char, stage, c - 1)>>])]

\* clear_all: eight bursts, a zero for every chip.
clear_all_bursts == [c \in 1..8 |-> Times(<<c, 0>>, NUM_MATRICES)]

\* The loop of scroll_message_horiz run on from the end of one
\* scroll_text_once to the next that has a step to take: phase is "loop"
\* inside the while loop, "last" in the closing scroll, "done" after it
\* and "spin" in a while loop that never ends and sends nothing.
RECURSIVE horiz_settle(_)
horiz_settle(e) ==
    IF e.phase = "test"
    THEN IF e.counter > 0 \/ e.indef
         THEN horiz_settle([e EXCEPT !.phase = "loop", !.k = 0])
         ELSE horiz_settle([e EXCEPT !.phase = "last", !.k = 0,
                                     !.texts = horiz_last_texts(e.messages, e.direction)])
    ELSE IF e.phase = "loop" /\ e.k >= once_steps(e.texts)
    THEN IF e.indef /\ once_steps(e.texts) = 0
                    /\ once_steps(horiz_wrapped_texts(e.messages, e.direction)) = 0
         THEN [e EXCEPT !.phase = "spin"]
         ELSE horiz_settle([e EXCEPT !.phase = "test",
                                     !.texts = IF e.counter = e.repeats
                                               THEN horiz_wrapped_texts(e.messages, e.direction)
                                               ELSE @,
                                     !.counter = @ - 1, !.scrolls = @ + 1])
    ELSE IF e.phase = "last" /\ e.k >= once_steps(e.texts)
    THEN [e EXCEPT !.phase = "done"]
    ELSE e

scroll_message_horiz_start(messages, repeats, direction, finish) ==
    /\ pc = "idle"
    /\ op' = [name |-> "scroll_message_horiz"]
    /\ spi' = <<>>
    /\ IF direction \notin {DIR_L, DIR_R}
       THEN /\ raised' = TRUE
            /\ pc' = "called"
            /\ eff' = [name |-> "scroll_message_horiz", shown |-> Display,
                       initial |-> Display, direction |-> direction,
                       repeats |-> repeats, finish |-> finish, steps |-> 0, sent |-> 0]
       ELSE /\ pc' = "horiz"
            /\ eff' = horiz_settle(
                      [name |-> "scroll_message_horiz", shown |-> Display,
                       initial |-> Display, direction |-> direction,
                       repeats |-> repeats, finish |-> finish, steps |-> 0, sent |-> 0,
                       messages |-> horiz_messages(messages),
                       indef |-> (repeats <= 0), counter |-> repeats,
                       texts |-> horiz_first_texts(horiz_messages(messages), direction),
                       phase |-> "test", k |-> 0, scrolls |-> 0,
                       step_texts |-> <<>>, start_char |-> 0, stage |-> 0])
            /\ UNCHANGED raised
    /\ UNCHANGED <<MATRIX_WIDTH, MATRIX_HEIGHT, gfx_buffer>>

scroll_text_once_step ==
    /\ pc = "horiz"
    /\ eff.phase \in {"loop", "last"}
    /\ eff.indef => eff.scrolls < MaxPasses
    /\ LET start_char == once_start_char(eff.texts, eff.direction, eff.k)
       IN  IF once_raises(eff.texts, eff.direction, start_char)
           THEN /\ raised' = TRUE
                /\ pc' = "called"
                /\ UNCHANGED <<spi, eff>>
           ELSE /\ spi' = once_bursts(eff.texts, eff.direction, start_char, eff.k % 8)
                /\ eff' = horiz_settle([eff EXCEPT !.shown = Display, !.k = @ + 1,
                                                   !.steps = @ + 1, !.sent = @ + 8,
                                                   !.step_texts = eff.texts,
                                                   !.start_char = start_char,
                                                   !.stage = eff.k % 8])
                /\ UNCHANGED <<pc, raised>>
    /\ UNCHANGED <<MATRIX_WIDTH, MATRIX_HEIGHT, gfx_buffer, op>>

\* The end of the function: clear_all() if finish.
scroll_message_horiz_return ==
    /\ pc = "horiz"
    /\ eff.phase = "done"
    /\ pc' = "called"
    /\ IF eff.finish
       THEN /\ spi' = clear_all_bursts
            /\ eff' = [eff EXCEPT !.shown = Display, !.sent = @ + 8]
       ELSE UNCHANGED <<spi, eff>>
    /\ UNCHANGED <<MATRIX_WIDTH, MATRIX_HEIGHT, gfx_buffer, op, raised>>

----------------------------------------------------------------------------
(* One text scroll on a display with every LED lit.                        *)

\* Pairs <<old_message, new_message>>: two full messages, and a short one
\* giving way to a long one.
VertMessages(n) ==
    {<<[k \in 1..n |-> 64 + k], [k \in 1..n |-> 96 + k]>>,
     <<<<72, 105>>, [k \in 1..(n + 2) |-> 96 + k]>>}

\* Rows of messages: an empty one, "Hi", and two rows of unequal length.
HorizMessages(w) ==
    {<< <<>> >>, << <<72, 105>> >>, <<[k \in 1..(w + 1) |-> 64 + k], <<72, 105>>>>}

NextScrollText ==
    \/ \E m \in VertMessages(NUM_MATRICES), direction \in {DIR_U, DIR_D, DIR_L},
          finish \in BOOLEAN :
            scroll_message_vert_start(m[1], m[2], direction, finish)
    \/ scroll_message_vert_step
    \/ scroll_message_vert_return
    \/ \E messages \in HorizMessages(MATRIX_WIDTH), repeats \in Repeats,
          direction \in {DIR_L, DIR_R, DIR_U}, finish \in BOOLEAN :
            scroll_message_horiz_start(messages, repeats, direction, finish)
    \/ scroll_text_once_step
    \/ scroll_message_horiz_return

SpecScrollText == InitText /\ [][NextScrollText]_vars

Blank == [col \in 1..8 |-> 0]

\* C13: for every grid the character of old_message on chip (chip_col c,
\* chip_row r) at the first step of scroll_message_vert is
\* old_message[c + (rows-1-r)*cols], the layout of static_message; the map
\* from chip to character index is a bijection onto [0, chip_count); and no
\* step raises an error.
C13_VertLayout ==
    (eff.name = "scroll_message_vert" /\ eff.direction \in {DIR_U, DIR_D}) =>
        /\ ~raised
        /\ {vert_position(matrix) : matrix \in MATRICES} = 0..(NUM_MATRICES - 1)
        /\ (eff.steps = 1) =>
              \A c \in 0..(MATRIX_WIDTH - 1), r \in 0..(MATRIX_HEIGHT - 1), col \in 1..8 :
                  Display[r + c * MATRIX_HEIGHT][col] % 256 =
                      DEFAULT_FONT(eff.old_message[c + (MATRIX_HEIGHT - 1 - r) * MATRIX_WIDTH + 1])[col]

\* C14: a text scroll called with a direction it does not support
\* (scroll_message_horiz with DIR_U or DIR_D, scroll_message_vert with DIR_L
\* or DIR_R) sends no bytes, leaves the display as it was and raises no
\* error.
C14_UnsupportedDirection ==
    (\/ eff.name = "scroll_message_horiz" /\ eff.direction \in {DIR_U, DIR_D}
     \/ eff.name = "scroll_message_vert" /\ eff.direction \in {DIR_L, DIR_R}) =>
        /\ ~raised
        /\ eff.sent = 0
        /\ Display = eff.initial

\* C16: with a blank space glyph, scroll_message_horiz with DIR_L or DIR_R
\* and repeats >= 1 shows every chip blank at its first step and, with
\* finish=True, returns with every column register of every chip zero.
C16_HorizBlankEnds ==
    (eff.name = "scroll_message_horiz" /\ eff.direction \in {DIR_L, DIR_R}
        /\ eff.repeats >= 1) =>
        /\ ~raised
        /\ (eff.steps = 1) => \A i \in MATRICES : Display[i] = Blank
        /\ (pc = "called" /\ eff.finish) => \A i \in MATRICES : Display[i] = Blank

\* A returned scroll of two rows that showed text on the way.
C16_Witness ==
    /\ eff.name = "scroll_message_horiz"
    /\ eff.direction = DIR_R
    /\ eff.repeats = 2
    /\ pc = "called" /\ eff.finish
    /\ MATRIX_WIDTH = 2 /\ MATRIX_HEIGHT = 2
    /\ eff.steps > 8 * MATRIX_WIDTH
    /\ eff.initial = LitDisplay
    /\ \A i \in MATRICES : Display[i] = Blank

\* Column j, 0-based, of the strip made of the 8-column glyphs of text.
StripColumn(text, j) == DEFAULT_FONT(text[(j \div 8) + 1])[(j % 8) + 1]

\* The strip column the claim puts on display pixel column x at the last
\* step.
StripIndex(x) ==
    IF eff.direction = DIR_L THEN 8 * eff.start_char + eff.stage + x
    ELSE 8 * (eff.start_char + 1) - eff.stage + x

\* C25: at step (start_char s, stage p) of scroll_text_once every burst
\* holds one pair per chip, and display pixel column x of chip-row r shows
\* column 8*s + p + x for DIR_L, and column 8*(s+1) - p + x for DIR_R, of
\* the strip of the 8-column glyphs of text line rows-1-r; every character
\* index used lies inside the text.
C25_ScrollStep ==
    (eff.name = "scroll_message_horiz" /\ eff.direction \in {DIR_L, DIR_R}
        /\ pc = "horiz" /\ eff.steps >= 1) =>
        /\ ~raised
        /\ Len(spi) = 8
        /\ \A b \in 1..8 : Len(spi[b]) = 2 * NUM_MATRICES
        /\ \A x \in 0..(8 * MATRIX_WIDTH - 1), r \in 0..(MATRIX_HEIGHT - 1) :
              LET text == eff.step_texts[(MATRIX_HEIGHT - 1 - r) + 1]
              IN  /\ StripIndex(x) \div 8 \in 0..(Len(text) - 1)
                  /\ Display[r + (x \div 8) * MATRIX_HEIGHT][(x % 8) + 1] =
                        StripColumn(text, StripIndex(x))

\* A step in the middle of a character, to the right, on a grid of two by
\* two chips whose two rows show different text.
C25_Witness ==
    /\ eff.name = "scroll_message_horiz"
    /\ pc = "horiz"
    /\ eff.direction = DIR_R
    /\ MATRIX_WIDTH = 2 /\ MATRIX_HEIGHT = 2
    /\ eff.steps >= 1 /\ eff.stage = 3
    /\ Display[0] # Display[1]
    /\ Display[1] # Display[3]

----------------------------------------------------------------------------
(* gfx_set_px and gfx_read_buffer.  An optional argument is <<>> for None  *)
(* and <<v>> for the value v.                                              *)

\* A plausible slip: only the upper bounds tested, as gfx_sprite_array does.
px_below_upper(g_x, g_y) == g_x < 8 * MATRIX_WIDTH /\ g_y < 8 * MATRIX_HEIGHT

\* (g_x in gfx_columns) and (g_y in gfx_rows)
px_in_buffer(g_x, g_y) == g_x \in Columns /\ g_y \in Rows

\* The value gfx_set_px stores over v; <<>> when it stores nothing.
set_px_value(v, state) ==
    IF state = GFX_ON THEN <<1>>
    ELSE IF state = GFX_OFF THEN <<0>>
    ELSE IF state = GFX_INVERT THEN <<1 - (v % 2)>>
    ELSE <<>>

gfx_set_px(g_x, g_y, state) ==
    /\ pc = "idle"
    /\ pc' = "called"
    /\ op' = [name |-> "gfx_set_px", g_x |-> g_x, g_y |-> g_y, state |-> state,
              pre |-> gfx_buffer]
    /\ IF px_in_buffer(g_x, g_y)
       THEN IF ~Index2OK(gfx_buffer, g_x, g_y)
            THEN raised' = TRUE /\ UNCHANGED gfx_buffer
            ELSE LET new == set_px_value(Get2(gfx_buffer, g_x, g_y), state)
                     x == Pos(Len(gfx_buffer), g_x)
                     y == Pos(Len(gfx_buffer[x]), g_y)
                 IN  /\ gfx_buffer' = IF new = <<>> THEN gfx_buffer
                                      ELSE [gfx_buffer EXCEPT ![x][y] = new[1]]
                     /\ UNCHANGED raised
       ELSE UNCHANGED <<gfx_buffer, raised>>
    /\ UNCHANGED <<MATRIX_WIDTH, MATRIX_HEIGHT, spi, eff>>

\* What gfx_read_buffer returns: a copy of the buffer, a pixel or None.
gfx_read_buffer_result(g_x, g_y) ==
    IF g_x = <<>> /\ g_y = <<>> THEN [kind |-> "buffer", val |-> gfx_buffer]
    ELSE IF g_x # <<>> /\ g_y # <<>> /\ px_in_buffer(g_x[1], g_y[1])
    THEN [kind |-> "pixel", val |-> Get2(gfx_buffer, g_x[1], g_y[1])]
    ELSE [kind |-> "None"]

gfx_read_buffer(g_x, g_y) ==
    /\ pc = "idle"
    /\ pc' = "called"
    /\ op' = [name |-> "gfx_read_buffer", g_x |-> g_x, g_y |-> g_y,
              pre |-> gfx_buffer, ret |-> gfx_read_buffer_result(g_x, g_y)]
    /\ raised' = (g_x # <<>> /\ g_y # <<>> /\ px_in_buffer(g_x[1], g_y[1])
                    /\ ~Index2OK(gfx_buffer, g_x[1], g_y[1]))
    /\ UNCHANGED <<MATRIX_WIDTH, MATRIX_HEIGHT, gfx_buffer, spi, eff>>

----------------------------------------------------------------------------
(* One pixel call on a buffer.                                             *)

\* Coordinates along an axis of n pixels: inside, on both edges, outside.
Coordinates(n) == {-n, -1, 0, 3, n - 1, n, n + 7}

InitPixel ==
    /\ InitCommon
    /\ gfx_buffer \in IrregularPatterns(MATRIX_WIDTH, MATRIX_HEIGHT)

NextPixel ==
    \/ \E g_x \in Coordinates(8 * MATRIX_WIDTH), g_y \in Coordinates(8 * MATRIX_HEIGHT),
          state \in {GFX_OFF, GFX_ON, GFX_INVERT, 3} :
            gfx_set_px(g_x, g_y, state)
    \/ \E g_x \in Coordinates(8 * MATRIX_WIDTH), g_y \in Coordinates(8 * MATRIX_HEIGHT) :
            gfx_read_buffer(<<g_x>>, <<g_y>>)
    \/ gfx_read_buffer(<<>>, <<>>)

SpecPixel == InitPixel /\ [][NextPixel]_vars

\* C17: gfx_read_buffer(x, y) and gfx_set_px(x, y, state) with a coordinate
\* outside [0, cols*8) x [0, rows*8), negative ones included, raise no error
\* and leave every pixel unchanged; with a coordinate inside, gfx_set_px
\* changes pixel (x, y) only: to 1 for ON, to 0 for OFF, to its complement
\* for INVERT.
C17_PixelBounds ==
    /\ (op.name = "gfx_read_buffer") =>
          /\ ~raised
          /\ gfx_buffer = op.pre
          /\ (op.g_x # <<>> /\ ~(op.g_x[1] \in Columns /\ op.g_y[1] \in Rows)) =>
                op.ret = [kind |-> "None"]
    /\ (op.name = "gfx_set_px") =>
          /\ ~raised
          /\ ~(op.g_x \in Columns /\ op.g_y \in Rows) => gfx_buffer = op.pre
          /\ (op.g_x \in Columns /\ op.g_y \in Rows /\ op.state \in {GFX_OFF, GFX_ON, GFX_INVERT}) =>
                \A x \in Columns, y \in Rows :
                    Px(x, y) = IF x = op.g_x /\ y = op.g_y
                               THEN CASE op.state = GFX_ON -> 1
                                      [] op.state = GFX_OFF -> 0
                                      [] op.state = GFX_INVERT -> 1 - At(op.pre, x, y)
                               ELSE At(op.pre, x, y)

\* An inversion of the top right pixel, which changed the buffer.
C17_Witness ==
    /\ op.name = "gfx_set_px"
    /\ op.state = GFX_INVERT
    /\ op.g_x = 8 * MATRIX_WIDTH - 1 /\ op.g_y = 8 * MATRIX_HEIGHT - 1
    /\ gfx_buffer # op.pre
    /\ MATRIX_WIDTH = 2 /\ MATRIX_HEIGHT = 1

----------------------------------------------------------------------------
(* One effect given an array of the wrong shape.                           *)

\* Arrays for a buffer of nx by ny pixels: one with too few and too short
\* columns, one with too many and too long ones, and one of the right size
\* in which every third entry is a number.
Misshapen(nx, ny) ==
    {[kind |-> "list", val |-> PatternArray(2, 2, 3)],
     [kind |-> "list", val |-> PatternArray(3, nx + 2, ny + 1)],
     [kind |-> "mixed",
      val |-> [i \in 1..nx |->
                  IF i % 3 = 0 THEN [kind |-> "int", val |-> 1]
                  ELSE [kind |-> "list", val |-> PatternArray(2, nx, ny)[i]]]]}

InitShapes ==
    /\ InitCommon
    /\ gfx_buffer = PatternArray(1, 8 * MATRIX_WIDTH, 8 * MATRIX_HEIGHT)

NextShapes ==
    \/ \E new_graphic \in Misshapen(8 * MATRIX_WIDTH, 8 * MATRIX_HEIGHT),
          direction \in Cardinals :
            towards_start(new_graphic, 1, direction)
    \/ towards_step
    \/ towards_return
    \/ \E new_graphic \in Misshapen(8 * MATRIX_WIDTH, 8 * MATRIX_HEIGHT),
          transition \in {DIR_R, DIR_D, DIR_RU, DIR_LU} :
            wipe_start(new_graphic, transition)
    \/ wipe_step
    \/ wipe_return
    \/ \E new_graphic \in Misshapen(8 * MATRIX_WIDTH, 8 * MATRIX_HEIGHT),
          seed \in {0, 3} :
            rain_start(new_graphic, rain_speeds(seed))
    \/ rain_step
    \/ rain_return

SpecShapes == InitShapes /\ [][NextShapes]_vars

\* Cell (x, y) of an array argument padded with off pixels: off where the
\* array has no column x, where the entry is no list, and where the column
\* has no cell y.
PaddedAt(new_graphic, x, y) ==
    IF x >= Len(new_graphic.val) THEN 0
    ELSE LET item == new_graphic.val[x + 1]
         IN  IF new_graphic.kind = "mixed"
             THEN IF item.kind = "list" /\ y < Len(item.val) THEN item.val[y + 1] ELSE 0
             ELSE IF y < Len(item) THEN item[y + 1] ELSE 0

----------------------------------------------------------------------------
(* The chip numbering of static_message against that of gfx_render.        *)

\* The <<register, position>> places of the rendered bursts whose data byte
\* is not zero.
NonZeroPlaces ==
    {rp \in (1..Len(spi)) \X (0..(NUM_MATRICES - 1)) : PairAt(spi[rp[1]], rp[2])[2] # 0}

\* The pixels of the buffer that are on.
LitPixels == {xy \in Columns \X Rows : Px(xy[1], xy[2]) = 1}

\* C22: for every grid, (chip_col, chip_row) -> chip_row + chip_col*rows
\* maps [0, cols) x [0, rows) one-to-one onto [0, cols*rows), and
\* (i div rows, i mod rows), which gfx_render uses, recovers
\* (chip_col, chip_row) from the index: a single lit pixel (x, y) is sent in
\* exactly one byte, that of chip (x div 8, y div 8) in the burst of
\* register (x mod 8) + 1.
C22_ChipIndex ==
    /\ \A c \in 0..(MATRIX_WIDTH - 1), r \in 0..(MATRIX_HEIGHT - 1) :
          /\ static_matrix(c, r) \in 0..(MATRIX_WIDTH * MATRIX_HEIGHT - 1)
          /\ static_matrix(c, r) \div MATRIX_HEIGHT = c
          /\ static_matrix(c, r) % MATRIX_HEIGHT = r
    /\ \A i \in 0..(MATRIX_WIDTH * MATRIX_HEIGHT - 1) :
          Cardinality({cr \in (0..(MATRIX_WIDTH - 1)) \X (0..(MATRIX_HEIGHT - 1)) :
                          static_matrix(cr[1], cr[2]) = i}) = 1
    /\ (op.name = "gfx_render") =>
          \A xy \in LitPixels :
              (LitPixels = {xy}) =>
                  NonZeroPlaces =
                      {<<(xy[1] % 8) + 1,
                         NUM_MATRICES - 1 - static_matrix(xy[1] \div 8, xy[2] \div 8)>>}

\* A rendered pixel of the upper chip of a grid one chip wide and two high.
C22_Witness ==
    /\ op.name = "gfx_render"
    /\ MATRIX_WIDTH = 1 /\ MATRIX_HEIGHT = 2
    /\ gfx_buffer = SinglePixel(1, 2, 3, 12)
    /\ NonZeroPlaces = {<<4, 0>>}

----------------------------------------------------------------------------
(* gfx_render called twice in a row.                                       *)

\* The second of two gfx_render calls with nothing in between; the bursts
\* of the first are kept in op.
gfx_render_again ==
    /\ pc = "called"
    /\ op.name = "gfx_render"
    /\ spi' = gfx_render_bursts(gfx_buffer)
    /\ op' = [name |-> "gfx_render twice", first |-> spi]
    /\ pc' = "twice"
    /\ raised' = FALSE
    /\ UNCHANGED <<MATRIX_WIDTH, MATRIX_HEIGHT, gfx_buffer, eff>>

\* eff keeps the buffer the script starts with.
InitRenderTwice ==
    /\ \E g \in Grids : MATRIX_WIDTH = g[1] /\ MATRIX_HEIGHT = g[2]
    /\ gfx_buffer \in Patterns(MATRIX_WIDTH, MATRIX_HEIGHT)
                      \cup SinglePixels(MATRIX_WIDTH, MATRIX_HEIGHT)
    /\ spi = <<>>
    /\ pc = "idle"
    /\ op = [name |-> "none"]
    /\ eff = [name |-> "none", initial |-> gfx_buffer]
    /\ raised = FALSE

NextRenderTwice ==
    \/ pc = "idle" /\ gfx_render
    \/ gfx_render_again

SpecRenderTwice == InitRenderTwice /\ [][NextRenderTwice]_vars

----------------------------------------------------------------------------
(* The width of the data values sent.                                      *)

\* The data values of the bursts last sent: the second value of every pair.
DataValues ==
    UNION {{spi[b][2 * k] : k \in 1..(Len(spi[b]) \div 2)} : b \in 1..Len(spi)}

\* C26: every data value handed to the transport is an 8-bit value in
\* 0..255, the blended bytes of send_matrix_shifted_letter for DIR_U and
\* DIR_D at every progress included, and at progress 0 the byte sent for a
\* column is the byte of the current glyph.
C26_EightBit ==
    /\ DataValues \subseteq 0..255
    /\ (op.name = "send_matrix_shifted_letter" /\ op.matrix \in MATRICES
          /\ op.direction \in {DIR_U, DIR_D} /\ op.progress % 8 = 0) =>
            \A c \in 1..8 :
                PairAt(spi[c], NUM_MATRICES - 1 - op.matrix) =
                    <<c, DEFAULT_FONT(op.curr_code % 256)[c]>>

----------------------------------------------------------------------------
(* The shape and the cells of the frame buffer.                            *)

\* C27: after any gfx_ operation with state ON, OFF or INVERT and a sprite
\* of bits, the frame buffer still has cols*8 columns of rows*8 cells, and
\* every cell holds 0 or 1.
C27_BufferOfBits ==
    /\ Len(gfx_buffer) = 8 * MATRIX_WIDTH
    /\ \A x \in 1..Len(gfx_buffer) :
          /\ Len(gfx_buffer[x]) = 8 * MATRIX_HEIGHT
          /\ \A y \in 1..Len(gfx_buffer[x]) : gfx_buffer[x][y] \in {0, 1}

=============================================================================
